---- MODULE Spec2Model ----
(***************************************************************************)
(* Model of the vibe_figma conversion core: the Repetition Extractor       *)
(* (transformJsx), the CSS-to-utility glue (FigmaToTailwindConverter) and  *)
(* the conversion pipeline (FigmaToHTML.convertJSX,                        *)
(* FigmaToReact.convertFromUrl).                                           *)
(*                                                                         *)
(* Source strings (tag names, attribute names, identifiers, text) are      *)
(* sequences of one-character strings, so that the string operations of    *)
(* the source (toLowerCase, trim, lowerFirst, toCamelCase, /^[A-Z]/,       *)
(* template literals) are computed rather than assumed.                    *)
(***************************************************************************)
EXTENDS Integers, Sequences, FiniteSets, TLC

(***************************************************************************)
(* String primitives                                                       *)
(***************************************************************************)
UpperChars == <<"A","B","C","D","E","F","G","H","I","J","K","L","M",
                "N","O","P","Q","R","S","T","U","V","W","X","Y","Z">>

LowerChars == <<"a","b","c","d","e","f","g","h","i","j","k","l","m",
                "n","o","p","q","r","s","t","u","v","w","x","y","z">>

DigitChars == <<"0","1","2","3","4","5","6","7","8","9">>

WhiteSpace == {" ", "\n", "\t"}

IsUpperChar(c) == \E i \in 1..Len(UpperChars) : UpperChars[i] = c

IsLowerChar(c) == \E i \in 1..Len(LowerChars) : LowerChars[i] = c

toLowerChar(c) ==
  IF IsUpperChar(c)
  THEN LowerChars[CHOOSE i \in 1..Len(UpperChars) : UpperChars[i] = c]
  ELSE c

toUpperChar(c) ==
  IF IsLowerChar(c)
  THEN UpperChars[CHOOSE i \in 1..Len(LowerChars) : LowerChars[i] = c]
  ELSE c

toLowerCase(s) == [i \in 1..Len(s) |-> toLowerChar(s[i])]

\* /^[A-Z]/.test(s)
StartsUpper(s) == Len(s) > 0 /\ IsUpperChar(s[1])

RECURSIVE trimStart(_)
trimStart(s) ==
  IF Len(s) > 0 /\ s[1] \in WhiteSpace THEN trimStart(Tail(s)) ELSE s

RECURSIVE trimEnd(_)
trimEnd(s) ==
  IF Len(s) > 0 /\ s[Len(s)] \in WhiteSpace
  THEN trimEnd(SubSeq(s, 1, Len(s) - 1))
  ELSE s

trim(s) == trimEnd(trimStart(s))

\* String(n) for a non-negative integer, as used by template literals and join
RECURSIVE NumToStr(_)
NumToStr(n) ==
  IF n < 10 THEN <<DigitChars[n + 1]>>
  ELSE NumToStr(n \div 10) \o <<DigitChars[(n % 10) + 1]>>

\* path.join("")
RECURSIVE JoinPath(_)
JoinPath(p) == IF p = <<>> THEN <<>> ELSE NumToStr(Head(p)) \o JoinPath(Tail(p))

lowerFirst(str) ==
  IF Len(str) > 0 THEN <<toLowerChar(str[1])>> \o Tail(str) ELSE str

\* str.replace(/-([a-z])/g, (_, letter) => letter.toUpperCase())
RECURSIVE toCamelCase(_)
toCamelCase(str) ==
  IF Len(str) = 0 THEN str
  ELSE IF Len(str) >= 2 /\ str[1] = "-" /\ IsLowerChar(str[2])
       THEN <<toUpperChar(str[2])>> \o toCamelCase(SubSeq(str, 3, Len(str)))
       ELSE <<str[1]>> \o toCamelCase(Tail(str))

\* Array.prototype.filter on a sequence, by a set of admitted values
RECURSIVE SelectIdx(_, _)
SelectIdx(n, S) ==
  IF n = 0 THEN <<>>
  ELSE IF n \in S THEN Append(SelectIdx(n - 1, S), n) ELSE SelectIdx(n - 1, S)

\* the subsequence of s at the (1-based) positions in S, in order
Filter(s, S) == [k \in 1..Len(SelectIdx(Len(s), S)) |-> s[SelectIdx(Len(s), S)[k]]]

Range(s) == {s[i] : i \in 1..Len(s)}

(***************************************************************************)
(* AST nodes (@babel/types builders)                                       *)
(***************************************************************************)
stringLiteral(v) == [type |-> "StringLiteral", value |-> v]

\* literal values are kept in printed form
booleanLiteral(v) == [type |-> "BooleanLiteral", value |-> v]

identifier(n) == [type |-> "Identifier", name |-> n]

memberExpression(o, p) == [type |-> "MemberExpression", object |-> o, property |-> p]

objectProperty(k, v) == [type |-> "ObjectProperty", key |-> k, value |-> v]

objectExpression(props) == [type |-> "ObjectExpression", properties |-> props]

jsxText(v) == [type |-> "JSXText", value |-> v]

jsxExpressionContainer(e) == [type |-> "JSXExpressionContainer", expression |-> e]

\* null: an absent attribute value, or a helper's null result
Null == [type |-> "null"]

jsxAttribute(n, v) == [type |-> "JSXAttribute", name |-> n, value |-> v]

jsxSpreadAttribute(e) == [type |-> "JSXSpreadAttribute", argument |-> e]

jsxElement(n, attrs, kids) ==
  [type |-> "JSXElement", name |-> n, attributes |-> attrs, children |-> kids]

\* the iteration construct arr.map((d, i) => <Comp {...d} key={i} />)
mapCall(arrName, compName) ==
  [type |-> "CallExpression",
   callee |-> memberExpression(identifier(arrName), identifier(<<"m","a","p">>)),
   params |-> <<identifier(<<"d">>), identifier(<<"i">>)>>,
   body |-> jsxElement(compName,
              <<jsxSpreadAttribute(identifier(<<"d">>)),
                jsxAttribute(<<"k","e","y">>,
                             jsxExpressionContainer(identifier(<<"i">>)))>>,
              <<>>)]

isJSXElement(n) == n.type = "JSXElement"

isJSXText(n) == n.type = "JSXText"

isJSXExpressionContainer(n) == n.type = "JSXExpressionContainer"

isJSXAttribute(n) == n.type = "JSXAttribute"

isLiteralLike(n) ==
  n.type \in {"StringLiteral", "NumericLiteral", "BooleanLiteral", "NullLiteral"}

\* generate(literal).code: the printed form of a literal
generateCode(lit) == <<lit.type, lit.value>>

SKIP_AUTO_COMPONENT_TAGS ==
  { <<"s","v","g">>, <<"c","l","i","p","p","a","t","h">>, <<"d","e","f","s">>,
    <<"e","l","l","i","p","s","e">>, <<"g">>,
    <<"l","i","n","e","a","r","g","r","a","d","i","e","n","t">>,
    <<"m","a","s","k">>, <<"p","a","t","h">>, <<"p","a","t","t","e","r","n">>,
    <<"p","o","l","y","g","o","n">>, <<"p","o","l","y","l","i","n","e">>,
    <<"r","a","d","i","a","l","g","r","a","d","i","e","n","t">>,
    <<"r","e","c","t">>, <<"s","t","o","p">>, <<"c","i","r","c","l","e">>,
    <<"i","m","a","g","e">>, <<"l","i","n","e">>, <<"t","e","x","t">>,
    <<"t","s","p","a","n">>, <<"u","s","e">>,
    <<"f","o","r","e","i","g","n","o","b","j","e","c","t">> }

\* every tag of the model is a plain JSXIdentifier
getElementTagName(node) == node.name

(***************************************************************************)
(* Structural signature                                                    *)
(***************************************************************************)
RECURSIVE Join(_, _)
Join(parts, sep) ==
  IF parts = <<>> THEN <<>>
  ELSE IF Len(parts) = 1 THEN parts[1]
  ELSE parts[1] \o <<sep>> \o Join(Tail(parts), sep)

attrSig(attr) ==
  IF attr.type = "JSXSpreadAttribute" THEN <<"{...}">>
  ELSE IF attr.value.type = "null" THEN attr.name \o <<"=true">>
  ELSE IF attr.value.type = "StringLiteral" THEN attr.name \o <<"=str">>
  ELSE IF isJSXExpressionContainer(attr.value)
       THEN IF isLiteralLike(attr.value.expression)
            THEN attr.name \o <<"=lit">>
            ELSE attr.name \o <<"=", attr.value.expression.type>>
       ELSE attr.name \o <<"=elem">>

RECURSIVE createSignature(_)
createSignature(node) ==
  LET childSig(ch) ==
        IF isJSXText(ch) THEN (IF trim(ch.value) # <<>> THEN <<"txt">> ELSE <<"ws">>)
        ELSE IF isJSXExpressionContainer(ch)
             THEN (IF isLiteralLike(ch.expression) THEN <<"lit">>
                   ELSE <<ch.expression.type>>)
        ELSE IF isJSXElement(ch) THEN createSignature(ch)
        ELSE <<"other">>
      attrs == Join([i \in 1..Len(node.attributes) |-> attrSig(node.attributes[i])], "|")
      kids  == Join([i \in 1..Len(node.children) |-> childSig(node.children[i])], ",")
  IN node.name \o <<"[">> \o attrs \o <<"]", "(">> \o kids \o <<")">>

getAttrLiteral(attr) ==
  IF attr.value.type = "null" THEN booleanLiteral(<<"t","r","u","e">>)
  ELSE IF attr.value.type = "StringLiteral" THEN attr.value
  ELSE IF isJSXExpressionContainer(attr.value) /\ isLiteralLike(attr.value.expression)
       THEN attr.value.expression
  ELSE Null

getChildLiteral(ch) ==
  IF isJSXText(ch)
  THEN (IF trim(ch.value) # <<>> THEN stringLiteral(trim(ch.value)) ELSE Null)
  ELSE IF isJSXExpressionContainer(ch) /\ isLiteralLike(ch.expression)
       THEN ch.expression
  ELSE Null

\* the children hasMeaningfulContent counts
MeaningfulIdx(node) ==
  { i \in 1..Len(node.children) :
      LET ch == node.children[i] IN
        IF isJSXText(ch) THEN Len(trim(ch.value)) > 0
        ELSE IF isJSXElement(ch) THEN TRUE
        ELSE IF isJSXExpressionContainer(ch)
             THEN ch.expression.type # "JSXEmptyExpression"
        ELSE FALSE }

\* the heuristic left out: every element counts as meaningful
hasMeaningfulContentAlways(node) == TRUE

hasMeaningfulContent(node) ==
  \/ Cardinality(MeaningfulIdx(node)) > 1
  \/ \E i \in MeaningfulIdx(node) : isJSXText(node.children[i])
  \/ Len(node.attributes) > 3

(***************************************************************************)
(* Variable sites                                                          *)
(***************************************************************************)
VarSite(kind, propKey, path, attrName) ==
  [kind |-> kind, propKey |-> propKey, path |-> path, attrName |-> attrName]

\* propKeyCount.get(base) || 0 : the bases handed out so far are kept in order
CountOf(bases, base) == Cardinality({ i \in 1..Len(bases) : bases[i] = base })

getUniquePropKey(bases, base) ==
  IF CountOf(bases, base) = 0 THEN base
  ELSE base \o NumToStr(CountOf(bases, base) + 1)

\* sites.push(...) after getUniquePropKey(base)
PushSite(acc, kind, base, path, attrName) ==
  [sites |-> Append(acc.sites,
                    VarSite(kind, getUniquePropKey(acc.bases, base), path, attrName)),
   bases |-> Append(acc.bases, base)]

MinOf(a, b) == IF a < b THEN a ELSE b

JSXAttributesOf(node) ==
  Filter(node.attributes,
         { i \in 1..Len(node.attributes) : isJSXAttribute(node.attributes[i]) })

RECURSIVE walkAttrs(_, _, _, _, _)
walkAttrs(aAttrs, bAttrs, i, path, acc) ==
  IF i > MinOf(Len(aAttrs), Len(bAttrs)) THEN acc
  ELSE LET aa == aAttrs[i]
           bb == bAttrs[i]
           av == getAttrLiteral(aa)
           bv == getAttrLiteral(bb)
       IN IF aa.name # bb.name THEN walkAttrs(aAttrs, bAttrs, i + 1, path, acc)
          ELSE IF av # Null /\ bv # Null /\ generateCode(av) # generateCode(bv)
               THEN walkAttrs(aAttrs, bAttrs, i + 1, path,
                              PushSite(acc, "attr", toCamelCase(aa.name), path, aa.name))
               ELSE walkAttrs(aAttrs, bAttrs, i + 1, path, acc)

RECURSIVE walk(_, _, _, _)
RECURSIVE walkChildren(_, _, _, _, _)
walkChildren(aNode, bNode, i, path, acc) ==
  IF i > MinOf(Len(aNode.children), Len(bNode.children)) THEN acc
  ELSE LET ca == aNode.children[i]
           cb == bNode.children[i]
           nextPath == Append(path, i - 1)
           textKey == <<"t","e","x","t">> \o JoinPath(nextPath)
       IN IF isJSXText(ca) /\ isJSXText(cb)
          THEN (IF trim(ca.value) # <<>> /\ trim(cb.value) # <<>>
                   /\ trim(ca.value) # trim(cb.value)
                THEN walkChildren(aNode, bNode, i + 1, path,
                                  PushSite(acc, "text", textKey, nextPath, <<>>))
                ELSE walkChildren(aNode, bNode, i + 1, path, acc))
          ELSE IF isJSXExpressionContainer(ca) /\ isJSXExpressionContainer(cb)
          THEN (IF getChildLiteral(ca) # Null /\ getChildLiteral(cb) # Null
                   /\ generateCode(getChildLiteral(ca)) # generateCode(getChildLiteral(cb))
                THEN walkChildren(aNode, bNode, i + 1, path,
                                  PushSite(acc, "text", textKey, nextPath, <<>>))
                ELSE walkChildren(aNode, bNode, i + 1, path, acc))
          ELSE IF isJSXElement(ca) /\ isJSXElement(cb)
          THEN walkChildren(aNode, bNode, i + 1, path, walk(ca, cb, nextPath, acc))
          ELSE walkChildren(aNode, bNode, i + 1, path, acc)

walk(aNode, bNode, path, acc) ==
  walkChildren(aNode, bNode, 1, path,
               walkAttrs(JSXAttributesOf(aNode), JSXAttributesOf(bNode), 1, path, acc))

findVariableSites(a, b) == walk(a, b, <<>>, [sites |-> <<>>, bases |-> <<>>]).sites

(***************************************************************************)
(* Paths, value extraction and parameter substitution                      *)
(***************************************************************************)
RECURSIVE navigateToPath(_, _)
navigateToPath(current, path) ==
  IF Len(path) <= 1
  THEN [type |-> "loc", parent |-> current,
        index |-> IF path = <<>> THEN -1 ELSE path[1]]
  ELSE IF path[1] + 1 \in 1..Len(current.children)
          /\ isJSXElement(current.children[path[1] + 1])
       THEN navigateToPath(current.children[path[1] + 1], Tail(path))
       ELSE Null

\* attributes.filter(isJSXAttribute).find(a => a.name.name === attrName)
FindAttrIdx(node, attrName) ==
  LET hits == { i \in 1..Len(node.attributes) :
                  isJSXAttribute(node.attributes[i])
                  /\ node.attributes[i].name = attrName }
  IN IF hits = {} THEN 0 ELSE CHOOSE i \in hits : \A j \in hits : i <= j

extractValue(node, site) ==
  LET loc == navigateToPath(node, site.path) IN
  IF loc = Null THEN stringLiteral(<<>>)
  ELSE IF site.kind = "text"
  THEN (IF loc.index + 1 \in 1..Len(loc.parent.children)
           /\ getChildLiteral(loc.parent.children[loc.index + 1]) # Null
        THEN getChildLiteral(loc.parent.children[loc.index + 1])
        ELSE stringLiteral(<<>>))
  ELSE LET target == IF loc.index < 0 THEN loc.parent
                     ELSE IF loc.index + 1 \in 1..Len(loc.parent.children)
                          THEN loc.parent.children[loc.index + 1]
                          ELSE Null
       IN IF ~isJSXElement(target) THEN stringLiteral(<<>>)
          ELSE IF FindAttrIdx(target, site.attrName) = 0 THEN stringLiteral(<<>>)
          ELSE IF getAttrLiteral(target.attributes[FindAttrIdx(target, site.attrName)]) # Null
               THEN getAttrLiteral(target.attributes[FindAttrIdx(target, site.attrName)])
               ELSE stringLiteral(<<>>)

\* attr.value = t.jsxExpressionContainer(propId) on the first attribute so named
SetAttrToProp(target, site) ==
  IF FindAttrIdx(target, site.attrName) = 0 THEN target
  ELSE [target EXCEPT !.attributes[FindAttrIdx(target, site.attrName)].value =
                        jsxExpressionContainer(identifier(site.propKey))]

RECURSIVE replaceWithProp(_, _, _)
replaceWithProp(node, path, site) ==
  IF Len(path) <= 1
  THEN LET index == IF path = <<>> THEN -1 ELSE path[1] IN
       IF site.kind = "text"
       THEN (IF index + 1 \in 1..Len(node.children)
             THEN [node EXCEPT !.children[index + 1] =
                                 jsxExpressionContainer(identifier(site.propKey))]
             ELSE node)
       ELSE IF index < 0 THEN SetAttrToProp(node, site)
       ELSE IF index + 1 \in 1..Len(node.children)
               /\ isJSXElement(node.children[index + 1])
            THEN [node EXCEPT !.children[index + 1] =
                                SetAttrToProp(node.children[index + 1], site)]
            ELSE node
  ELSE IF path[1] + 1 \in 1..Len(node.children)
          /\ isJSXElement(node.children[path[1] + 1])
       THEN [node EXCEPT !.children[path[1] + 1] =
                           replaceWithProp(node.children[path[1] + 1], Tail(path), site)]
       ELSE node

\* sites.forEach(site => replaceWithProp(template, site))
RECURSIVE ReplaceAllSites(_, _)
ReplaceAllSites(template, sites) ==
  IF sites = <<>> THEN template
  ELSE ReplaceAllSites(replaceWithProp(template, Head(sites).path, Head(sites)),
                       Tail(sites))

(***************************************************************************)
(* Reference collection                                                    *)
(***************************************************************************)
\* refs.add(name): a Set that keeps insertion order
AddRef(acc, n) == IF n \in Range(acc) THEN acc ELSE Append(acc, n)

RECURSIVE visitNode(_, _)
RECURSIVE visitAll(_, _)
visitAll(nodes, acc) ==
  IF nodes = <<>> THEN acc ELSE visitAll(Tail(nodes), visitNode(Head(nodes), acc))

\* every AST node below n is visited; each t.isIdentifier node adds its name
visitNode(n, acc) ==
  CASE n.type = "Identifier" -> AddRef(acc, n.name)
    [] n.type = "MemberExpression" -> visitAll(<<n.object, n.property>>, acc)
    [] n.type = "ObjectExpression" -> visitAll(n.properties, acc)
    [] n.type = "ObjectProperty" -> visitAll(<<n.key, n.value>>, acc)
    [] n.type = "CallExpression" -> visitAll(<<n.callee>> \o n.params \o <<n.body>>, acc)
    [] n.type = "JSXExpressionContainer" -> visitNode(n.expression, acc)
    [] n.type = "JSXSpreadAttribute" -> visitNode(n.argument, acc)
    [] n.type = "JSXAttribute" -> visitNode(n.value, acc)
    [] n.type = "JSXElement" -> visitAll(n.attributes \o n.children, acc)
    [] OTHER -> acc

\* only the children of the element are visited
collectChildRefs(node) == visitAll(node.children, <<>>)

collectExpressionRefs(node) == visitNode(node, <<>>)

(***************************************************************************)
(* Template and call-site synthesis                                        *)
(***************************************************************************)
SiteKeys(sites) == [i \in 1..Len(sites) |-> sites[i].propKey]

\* Array.from(usedRefs).filter(ref => !sites.some(s => s.propKey === ref))
AdditionalRefs(template, sites) ==
  LET refs == collectExpressionRefs(template)
  IN Filter(refs, { i \in 1..Len(refs) : refs[i] \notin Range(SiteKeys(sites)) })

createComponent(name, example, sites) ==
  LET template == ReplaceAllSites(example, sites)
  IN [type |-> "FunctionDeclaration",
      id |-> name,
      params |-> SiteKeys(sites) \o AdditionalRefs(template, sites),
      body |-> template]

createInstance(original, compName, sites, additionalRefs) ==
  jsxElement(compName,
    [i \in 1..Len(sites) |->
       jsxAttribute(sites[i].propKey,
                    jsxExpressionContainer(extractValue(original, sites[i])))]
    \o [i \in 1..Len(additionalRefs) |->
       jsxAttribute(additionalRefs[i],
                    jsxExpressionContainer(identifier(additionalRefs[i])))],
    <<>>)

areConsecutive(indices) ==
  IF Len(indices) = 0 THEN FALSE
  ELSE LET sorted == SortSeq(indices, LAMBDA a, b : a < b)
       IN \A i \in 1..Len(sorted) : i = 1 \/ sorted[i] = sorted[i - 1] + 1

(***************************************************************************)
(* Name generation                                                         *)
(***************************************************************************)
\* prog.scope.hasBinding / hasReference against the scope crawled at parse
hasBinding(scope, n) == n \in scope.bindings

hasReference(scope, n) == n \in scope.references

RECURSIVE NextFreeName(_, _, _, _)
NextFreeName(base, suffix, used, scope) ==
  LET candidate == base \o NumToStr(suffix)
  IN IF candidate \in used \/ hasBinding(scope, candidate) \/ hasReference(scope, candidate)
     THEN NextFreeName(base, suffix + 1, used, scope)
     ELSE candidate

\* only the names reserved by this call are avoided
getUniqueNameAmongUsed(base, used, scope) ==
  IF base \in used THEN NextFreeName(base, 2, used, [bindings |-> {}, references |-> {}])
  ELSE base

getUniqueName(base, used, scope) ==
  IF base \in used \/ hasBinding(scope, base) \/ hasReference(scope, base)
  THEN NextFreeName(base, 2, used, scope)
  ELSE base

(***************************************************************************)
(* Program state of one transformJsx call                                  *)
(***************************************************************************)
VARIABLES
  ast,                  \* the parsed program: its body, a sequence of declarations
  scope,                \* prog.scope as crawled by traverse() at the start of the call
  options,              \* componentName, preferMap, minRepeats
  usedNames,            \* const usedNames = new Set()
  generatedComponents,  \* const generatedComponents = new Set()
  changed,              \* let changed = false
  queue,                \* declarations still to be traversed (ids, in order)
  cur,                  \* id of the declaration being traversed, <<>> if none
  stack,                \* traversal frames: container path and pending child indices
  pc,                   \* "traverse" or "done"
  source,               \* the program handed to the current call
  result,               \* { code, changed } returned by the last finished call
  runs,                 \* number of finished transformJsx calls
  commits               \* log of committed extractions of the current call

extractorVars == <<ast, scope, options, usedNames, generatedComponents, changed,
                   queue, cur, stack, pc, source, result, runs, commits>>

(***************************************************************************)
(* State of a FigmaToTailwindConverter and of its last call                *)
(***************************************************************************)
VARIABLES
  tailwindClasses,          \* private tailwindClasses: Map<string, string[]>
  unsupportedDeclarations,  \* private unsupportedDeclarations: Map<string, string[]>
  cssInput,                 \* the css handed to the last convertCSSToTailwind call
  conversion,               \* what that call returned
  calls                     \* number of calls made on the instances so far

resolverVars == <<tailwindClasses, unsupportedDeclarations, cssInput, conversion, calls>>

(***************************************************************************)
(* State of one FigmaToReact.convertFromUrl call                           *)
(***************************************************************************)
VARIABLES
  step,             \* position in convertFromUrl / convertJSX
  reactOptions,     \* this.options of FigmaToReact, passed on to FigmaToHTML
  documentNode,     \* the imported document
  failures,         \* which collaborators fail during this call
  styles,           \* FigmaToHTML.styles: Map<className, declarations>
  html,             \* the rendered markup: one class attribute per element
  css,              \* let css = this.generateCSS()
  tailwindCSS,      \* let tailwindCSS = ""
  jsx,              \* the component source text
  jsxResult,        \* what convertJSX returned
  outcome           \* what convertFromUrl returned

pipelineVars == <<step, reactOptions, documentNode, failures, styles, html, css,
                  tailwindCSS, jsx, jsxResult, outcome>>

(***************************************************************************)
(* State of one run of the command line: convertCommand                    *)
(***************************************************************************)
VARIABLES
  cliStep,          \* position in convertCommand / saveConversionResults
  cliOptions,       \* the CliOptions built from the command line
  processEnv,       \* process.env: FIGMA_TOKEN, FIGMA_ACCESS_TOKEN
  finalOptions,     \* let finalOptions
  prompted,         \* the questions shown to the user so far, in order
  converter,        \* the FigmaToReact instance: its access token and options
  conversionResult, \* const result = await converter.convertFromUrl(...)
  paths,            \* const paths = resolveOutputPaths(...)
  existing,         \* the files found on disk by fileExists
  written,          \* the files written by fs.writeFile: path and content
  savedFiles,       \* const savedFiles: component, css, assets
  exitCode          \* process.exit(code), None while the process runs

cliVars == <<cliStep, cliOptions, processEnv, finalOptions, prompted, converter,
             conversionResult, paths, existing, written, savedFiles, exitCode>>

(***************************************************************************)
(* State of one FigmaToReact.downloadAndConvertImages call                 *)
(***************************************************************************)
VARIABLES
  dlStep,             \* position of the caller: "call", "awaiting", "returned"
  imageMap,           \* Object.entries(imageMap): imageRef and url, in order
  downloads,          \* position of each download callback
  urlToFilename,      \* const urlToFilename = new Map()
  imageRefToFilename, \* const imageRefToFilename = new Map()
  assetData,          \* const assets: filename -> data URL
  downloadResult,     \* what downloadAndConvertImages returned
  imageUrls           \* convertFromUrl: imageUrls[imageRef] = `/${filename}`

downloadVars == <<dlStep, imageMap, downloads, urlToFilename, imageRefToFilename,
                  assetData, downloadResult, imageUrls>>

(***************************************************************************)
(* State of the HTTP server of index.ts: one request at a time through the *)
(* middleware chain                                                        *)
(***************************************************************************)
VARIABLES
  srvStep,      \* the middleware about to run, "listening" between requests
  API_KEY,      \* env.API_KEY
  req,          \* c.req: method, path and the x-api-key header
  resStatus,    \* the status the request was answered with, 0 before
  limiterHits,  \* the rate limiter's store: key -> requests counted
  handlerRuns,  \* the route handlers that ran for the current request
  served        \* requests answered so far

serverVars == <<srvStep, API_KEY, req, resStatus, limiterHits, handlerRuns, served>>

(***************************************************************************)
(* State of one FigmaToHTML instance across its getNodeStyles calls        *)
(***************************************************************************)
VARIABLES
  layoutOptions,  \* this.options: useAbsolutePositioning, responsive
  zIndexCounter,  \* this.zIndexCounter
  rootWidth,      \* this.rootWidth: {} for null, {w} once set
  lastCall,       \* the arguments of the last getNodeStyles call, None before
  nodeStyles,     \* the styles the last call built, <<>> before
  layoutCalls     \* getNodeStyles calls made so far

layoutVars == <<layoutOptions, zIndexCounter, rootWidth, lastCall, nodeStyles,
                layoutCalls>>

vars == <<extractorVars, resolverVars, pipelineVars, cliVars, downloadVars, serverVars, layoutVars>>

\* no value yet
None == [type |-> "none"]

\* no FigmaToHTML instance is laying out nodes
LayoutIdle ==
  /\ layoutOptions = None
  /\ zIndexCounter = 0
  /\ rootWidth = {}
  /\ lastCall = None
  /\ nodeStyles = <<>>
  /\ layoutCalls = 0

\* no server is listening
ServerIdle ==
  /\ srvStep = "idle"
  /\ API_KEY = None
  /\ req = None
  /\ resStatus = 0
  /\ limiterHits = <<>>
  /\ handlerRuns = {}
  /\ served = 0

\* no download is running
DownloadIdle ==
  /\ dlStep = "idle"
  /\ imageMap = <<>>
  /\ downloads = <<>>
  /\ urlToFilename = <<>>
  /\ imageRefToFilename = <<>>
  /\ assetData = <<>>
  /\ downloadResult = None
  /\ imageUrls = <<>>

\* no converter is in use
ResolverIdle ==
  /\ tailwindClasses = <<>>
  /\ unsupportedDeclarations = <<>>
  /\ cssInput = <<>>
  /\ conversion = None
  /\ calls = 0

\* no conversion is in progress
PipelineIdle ==
  /\ step = "idle"
  /\ reactOptions = None
  /\ documentNode = None
  /\ failures = {}
  /\ styles = <<>>
  /\ html = <<>>
  /\ css = <<>>
  /\ tailwindCSS = <<>>
  /\ jsx = None
  /\ jsxResult = None
  /\ outcome = None

\* the command line is not running
CliIdle ==
  /\ cliStep = "idle"
  /\ cliOptions = None
  /\ processEnv = None
  /\ finalOptions = None
  /\ prompted = <<>>
  /\ converter = None
  /\ conversionResult = None
  /\ paths = None
  /\ existing = {}
  /\ written = <<>>
  /\ savedFiles = None
  /\ exitCode = None

\* const Name = () => { return ( <jsx/> ); };
componentDeclaration(name, markup) ==
  [type |-> "VariableDeclaration", id |-> name,
   init |-> [type |-> "ArrowFunctionExpression", body |-> markup]]

\* const arrName = [ {...}, ... ];
arrayDeclaration(name, items) ==
  [type |-> "VariableDeclaration", id |-> name,
   init |-> [type |-> "ArrayExpression", elements |-> items]]

HasJsx(decl) ==
  decl.type = "FunctionDeclaration" \/ decl.init.type = "ArrowFunctionExpression"

JsxOf(decl) == IF decl.type = "FunctionDeclaration" THEN decl.body ELSE decl.init.body

WithJsx(decl, markup) ==
  IF decl.type = "FunctionDeclaration" THEN [decl EXCEPT !.body = markup]
  ELSE [decl EXCEPT !.init.body = markup]

DeclIdx(body, id) == CHOOSE i \in 1..Len(body) : body[i].id = id

\* the node reached from root by a path of 1-based child positions
RECURSIVE NodeAt(_, _)
NodeAt(root, path) ==
  IF path = <<>> THEN root ELSE NodeAt(root.children[Head(path)], Tail(path))

RECURSIVE SetChildrenAt(_, _, _)
SetChildrenAt(root, path, kids) ==
  IF path = <<>> THEN [root EXCEPT !.children = kids]
  ELSE [root EXCEPT !.children[Head(path)] =
                      SetChildrenAt(root.children[Head(path)], Tail(path), kids)]

\* container.children.filter(t.isJSXElement), as positions
ElementIdx(container) ==
  { i \in 1..Len(container.children) : isJSXElement(container.children[i]) }

(***************************************************************************)
(* Grouping                                                                *)
(***************************************************************************)
\* the groups are filtered but not sorted: the first group with enough members
bestGroupUnsorted(container, minRepeats) ==
  LET elems == ElementIdx(container)
      sigs == <<>> \o [i \in 1..Len(container.children) |->
                         IF i \in elems THEN createSignature(container.children[i])
                         ELSE <<>>]
      grp == [i \in elems |-> { j \in elems : sigs[j] = sigs[i] }]
      cands == { i \in elems : (\A j \in grp[i] : i <= j)
                                /\ Cardinality(grp[i]) >= minRepeats }
  IN IF cands = {} THEN {}
     ELSE grp[CHOOSE i \in cands : \A j \in cands : i <= j]

\* groups: children grouped by createSignature, in Map (first member) order;
\* .filter(g => g.nodes.length >= minRepeats).sort((a, b) => b.length - a.length)[0]
\* (the sort is stable), as the set of member positions; {} when undefined
bestGroup(container, minRepeats) ==
  LET elems == ElementIdx(container)
      sigs == <<>> \o [i \in 1..Len(container.children) |->
                         IF i \in elems THEN createSignature(container.children[i])
                         ELSE <<>>]
      grp == [i \in elems |-> { j \in elems : sigs[j] = sigs[i] }]
      size == [i \in elems |-> Cardinality(grp[i])]
      cands == { i \in elems : (\A j \in grp[i] : i <= j) /\ size[i] >= minRepeats }
  IN IF cands = {} THEN {}
     ELSE grp[CHOOSE i \in cands : \A j \in cands :
                \/ size[i] > size[j]
                \/ (size[i] = size[j] /\ i <= j)]

\* bestGroup.indices: the member positions in document order
GroupIndices(container, group) == SelectIdx(Len(container.children), group)

(***************************************************************************)
(* The JSXElement visitor                                                  *)
(***************************************************************************)
svgTag == <<"s","v","g">>

\* first.children.filter(text with content, element or expression container)
FirstChildrenIdx(first) ==
  { i \in 1..Len(first.children) :
      IF isJSXText(first.children[i]) THEN Len(trim(first.children[i].value)) > 0
      ELSE isJSXElement(first.children[i]) \/ isJSXExpressionContainer(first.children[i]) }

\* passthrough pattern: the single child is a custom component
IsPassthrough(first) ==
  /\ Cardinality(FirstChildrenIdx(first)) = 1
  /\ \E i \in FirstChildrenIdx(first) :
        /\ isJSXElement(first.children[i])
        /\ StartsUpper(getElementTagName(first.children[i]))

\* the tag test at the head of the visitor
IsSkippedTag(node, generated) ==
  \/ toLowerCase(getElementTagName(node)) \in SKIP_AUTO_COMPONENT_TAGS
  \/ getElementTagName(node) \in generated

IsSkippedParent(container) ==
  \/ toLowerCase(getElementTagName(container)) = svgTag
  \/ toLowerCase(getElementTagName(container)) \in SKIP_AUTO_COMPONENT_TAGS

\* the first two members of the chosen group
FirstOf(container, group) == container.children[GroupIndices(container, group)[1]]

SecondOf(container, group) == container.children[GroupIndices(container, group)[2]]

\* the visitor without the test for a capitalized first member
DecisionWithoutComponentTest(node, container, opts, generated) ==
  LET group == bestGroup(container, opts.minRepeats) IN
  IF IsSkippedTag(node, generated) THEN "skip-tag"
  ELSE IF IsSkippedParent(container) THEN "skip-parent"
  ELSE IF Cardinality(ElementIdx(container)) < opts.minRepeats THEN "too-few"
  ELSE IF group = {} THEN "no-group"
  ELSE IF Cardinality(group) < 2 THEN "no-second"
  ELSE IF findVariableSites(FirstOf(container, group), SecondOf(container, group)) = <<>>
       THEN "no-sites"
  ELSE IF IsPassthrough(FirstOf(container, group)) THEN "passthrough"
  ELSE IF ~hasMeaningfulContent(FirstOf(container, group)) THEN "no-content"
  ELSE "extract"

\* the point at which the visitor returns for the element node of container
\* ("extract" when it reaches the commit)
Decision(node, container, opts, generated) ==
  LET group == bestGroup(container, opts.minRepeats) IN
  IF IsSkippedTag(node, generated) THEN "skip-tag"
  ELSE IF IsSkippedParent(container) THEN "skip-parent"
  ELSE IF Cardinality(ElementIdx(container)) < opts.minRepeats THEN "too-few"
  ELSE IF group = {} THEN "no-group"
  ELSE IF Cardinality(group) < 2 THEN "no-second"
  ELSE IF StartsUpper(getElementTagName(FirstOf(container, group))) THEN "component"
  ELSE IF findVariableSites(FirstOf(container, group), SecondOf(container, group)) = <<>>
       THEN "no-sites"
  ELSE IF IsPassthrough(FirstOf(container, group)) THEN "passthrough"
  ELSE IF ~hasMeaningfulContent(FirstOf(container, group)) THEN "no-content"
  ELSE "extract"

\* preferMap && areConsecutive(bestGroup.indices)
UseMap(container, group, opts) ==
  opts.preferMap /\ areConsecutive(GroupIndices(container, group))

DataSuffix == <<"D","a","t","a">>

\* one record of the data table
DataItem(node, sites) ==
  objectExpression([i \in 1..Len(sites) |->
     objectProperty(identifier(sites[i].propKey), extractValue(node, sites[i]))])

\* the splice runs to the end of the list: the children after the span are lost
ReplacedChildrenToEnd(container, group, compName, arrName, sites, refs, useMap) ==
  LET idx == GroupIndices(container, group)
  IN IF useMap
     THEN SubSeq(container.children, 1, idx[1] - 1)
          \o <<jsxExpressionContainer(mapCall(arrName, compName))>>
     ELSE [i \in 1..Len(container.children) |->
             IF i \in group
             THEN createInstance(container.children[i], compName, sites, refs)
             ELSE container.children[i]]

\* container.children after the replacement
ReplacedChildren(container, group, compName, arrName, sites, refs, useMap) ==
  LET idx == GroupIndices(container, group)
      start == idx[1]
      end == idx[Len(idx)]
  IN IF useMap
     THEN SubSeq(container.children, 1, start - 1)
          \o <<jsxExpressionContainer(mapCall(arrName, compName))>>
          \o SubSeq(container.children, end + 1, Len(container.children))
     ELSE [i \in 1..Len(container.children) |->
             IF i \in group
             THEN createInstance(container.children[i], compName, sites, refs)
             ELSE container.children[i]]

\* the pending sibling paths after path.resync(): replaced nodes are dropped,
\* the others follow their node to its new position
ResyncPending(pending, container, group, useMap) ==
  LET idx == GroupIndices(container, group)
      keep == Filter(pending, { i \in 1..Len(pending) : pending[i] \notin group })
  IN IF useMap
     THEN [i \in 1..Len(keep) |->
             IF keep[i] > idx[Len(idx)] THEN keep[i] - (Len(idx) - 1) ELSE keep[i]]
     ELSE keep

\* frames whose pending list is exhausted are left
RECURSIVE PopDone(_)
PopDone(stk) ==
  IF stk # <<>> /\ stk[Len(stk)].pending = <<>>
  THEN PopDone(SubSeq(stk, 1, Len(stk) - 1))
  ELSE stk

Frame(path, node) ==
  [path |-> path, pending |-> SelectIdx(Len(node.children), ElementIdx(node))]

(***************************************************************************)
(* Scope crawl                                                             *)
(***************************************************************************)
importDeclaration(name) == [type |-> "ImportDeclaration", id |-> name]

\* a top-level statement that only mentions an identifier
expressionStatement(name) ==
  [type |-> "ExpressionStatement", id |-> <<>>, expression |-> identifier(name)]

\* names bound by the declarations of the program body
ProgramBindings(body) ==
  { body[i].id : i \in { j \in 1..Len(body) : body[j].type # "ExpressionStatement" } }

\* names bound in function scopes: template parameters and the (d, i) of an iteration
RECURSIVE ArrowParams(_)
ArrowParams(n) ==
  CASE n.type = "JSXElement" ->
         UNION { ArrowParams(n.children[i]) : i \in 1..Len(n.children) }
    [] n.type = "JSXExpressionContainer" -> ArrowParams(n.expression)
    [] n.type = "CallExpression" -> { n.params[i].name : i \in 1..Len(n.params) }
    [] OTHER -> {}

InnerBindings(body) ==
  UNION { IF body[i].type = "FunctionDeclaration"
          THEN Range(body[i].params) \cup ArrowParams(body[i].body)
          ELSE IF body[i].type = "VariableDeclaration"
                  /\ body[i].init.type = "ArrowFunctionExpression"
               THEN ArrowParams(body[i].init.body)
               ELSE {} : i \in 1..Len(body) }

\* identifiers mentioned anywhere in the program
Mentioned(body) ==
  UNION { IF body[i].type = "ExpressionStatement" THEN {body[i].expression.name}
          ELSE IF body[i].type = "ImportDeclaration" THEN {}
          ELSE IF HasJsx(body[i]) THEN Range(collectExpressionRefs(JsxOf(body[i])))
          ELSE {} : i \in 1..Len(body) }

\* Scope#crawl: bindings of the program scope; references holds every name that
\* has a binding in some scope of the program (registerBinding); identifiers
\* that are mentioned without a binding are globals
Crawl(body) ==
  [bindings |-> ProgramBindings(body),
   references |-> ProgramBindings(body) \cup InnerBindings(body),
   globals |-> Mentioned(body) \ (ProgramBindings(body) \cup InnerBindings(body))]

(***************************************************************************)
(* Inputs                                                                  *)
(***************************************************************************)
div == <<"d","i","v">>

span == <<"s","p","a","n">>

pTag == <<"p">>

pathTag == <<"p","a","t","h">>

Card == <<"C","a","r","d">>

className == <<"c","l","a","s","s","N","a","m","e">>

onClick == <<"o","n","C","l","i","c","k">>

title == <<"t","i","t","l","e">>

handler == <<"h","a","n","d","l","e","r">>

ExtractedItem == <<"E","x","t","r","a","c","t","e","d","I","t","e","m">>

FrameComponent == <<"F","r","a","m","e","C","o","m","p","o","n","e","n","t">>

cls(c) == jsxAttribute(className, stringLiteral(c))

\* the element shapes the renderer and hand-written callers produce
ItemShape(shape, c, t) ==
  CASE shape = "labelled" ->
         jsxElement(div, <<cls(c)>>, <<jsxElement(span, <<>>, <<jsxText(t)>>)>>)
    [] shape = "caption" -> jsxElement(div, <<cls(c)>>, <<jsxText(t)>>)
    [] shape = "handler" ->
         jsxElement(div, <<cls(c), jsxAttribute(onClick,
                                     jsxExpressionContainer(identifier(handler)))>>,
                    <<jsxText(t)>>)
    [] shape = "component" ->
         jsxElement(Card, <<jsxAttribute(title, stringLiteral(t))>>, <<>>)
    [] shape = "wrapper" ->
         jsxElement(div, <<cls(c)>>,
                    <<jsxElement(Card, <<jsxAttribute(title, stringLiteral(t))>>, <<>>)>>)
    [] shape = "vector" ->
         jsxElement(pathTag, <<jsxAttribute(<<"d">>, stringLiteral(t))>>, <<>>)
    [] shape = "list" ->
         jsxElement(div, <<cls(c)>>,
                    <<jsxElement(pTag, <<>>, <<jsxText(<<"A">>)>>),
                      jsxElement(pTag, <<>>, <<jsxText(t)>>)>>)
    [] shape = "glyph" ->
         jsxElement(<<"t","e","x","t">>, <<cls(c)>>, <<jsxText(t)>>)
    [] shape = "styled" ->
         jsxElement(div, <<cls(c), jsxAttribute(<<"s","t","y","l","e">>,
                       jsxExpressionContainer(objectExpression(
                         <<objectProperty(identifier(<<"c","o","l","o","r">>),
                                          identifier(<<"t","o","n","e">>))>>)))>>,
                    <<jsxText(t)>>)
    [] shape = "field" ->
         jsxElement(div, <<cls(c), jsxAttribute(title,
                       jsxExpressionContainer(memberExpression(
                         identifier(<<"i","t","e","m">>),
                         identifier(<<"l","a","b","e","l">>))))>>,
                    <<jsxText(t)>>)
    [] shape = "pair" ->
         jsxElement(div, <<jsxAttribute(title, stringLiteral(t)),
                           jsxAttribute(title \o <<"2">>, stringLiteral(t))>>,
                    <<jsxText(c),
                      jsxElement(span, <<jsxAttribute(title, stringLiteral(t \o t))>>,
                                 <<>>)>>)
    [] shape = "grid" ->
         jsxElement(div, <<cls(c)>>,
                    <<jsxElement(pTag, <<>>, <<jsxText(<<"A">>)>>),
                      jsxElement(span, <<>>, <<jsxText(<<"A">>)>>),
                      jsxElement(pTag, <<>>, <<jsxText(t)>>),
                      jsxElement(span, <<>>, <<jsxText(t)>>)>>)
    [] shape = "mosaic" ->
         jsxElement(div, <<cls(c)>>,
                    <<jsxElement(pTag, <<>>, <<jsxText(<<"A">>)>>),
                      jsxElement(span, <<>>, <<jsxText(<<"A">>)>>),
                      jsxElement(span, <<>>, <<jsxText(t)>>),
                      jsxElement(pTag, <<>>, <<jsxText(t)>>),
                      jsxElement(span, <<>>, <<jsxText(<<"C">>)>>)>>)
    [] shape = "rows" ->
         jsxElement(div, <<cls(c)>>,
                    <<jsxElement(pTag, <<>>, <<jsxText(<<"A">>)>>),
                      jsxElement(pTag, <<>>, <<jsxText(t)>>),
                      jsxElement(span, <<>>, <<jsxText(<<"A">>)>>),
                      jsxElement(span, <<>>, <<jsxText(t)>>)>>)
    [] shape = "record" ->
         jsxElement(div, <<jsxAttribute(<<"i","d">>, stringLiteral(t)),
                           jsxAttribute(title, stringLiteral(t)),
                           jsxAttribute(<<"l","a","n","g">>, stringLiteral(t)),
                           jsxAttribute(<<"d","a","t","a","-","k","e","y">>,
                                        stringLiteral(t))>>, <<>>)

\* whitespace between elements, as the HTML-to-JSX step leaves it
newline == jsxText(<<"\n", " ">>)

\* children of the root container: repeated wrappers of a label, a vector
FlatChildren ==
  { ItemShape("labelled", <<"x">>, <<"A">>), ItemShape("labelled", <<"x">>, <<"B">>),
    ItemShape("labelled", <<"x">>, <<"C">>), ItemShape("vector", <<"x">>, <<"A">>) }

\* children of the root container: elements with direct text, whitespace
CaptionChildren ==
  { ItemShape("caption", <<"x">>, <<"A">>), ItemShape("caption", <<"x">>, <<"B">>),
    ItemShape("caption", <<"y">>, <<"A">>), newline }

\* children of the root container: references to the enclosing scope, nesting
RichChildren ==
  { ItemShape("handler", <<"x">>, <<"A">>), ItemShape("handler", <<"x">>, <<"B">>),
    ItemShape("list", <<"x">>, <<"B">>), ItemShape("list", <<"y">>, <<"B">>) }

\* children of the root container: components and wrappers of components
ComponentChildren ==
  { ItemShape("component", <<"x">>, <<"A">>), ItemShape("component", <<"x">>, <<"B">>),
    ItemShape("wrapper", <<"x">>, <<"A">>), ItemShape("wrapper", <<"x">>, <<"B">>) }

\* children of the root container: graphics primitives next to other markup
GlyphChildren ==
  { ItemShape("glyph", <<"x">>, <<"A">>), ItemShape("glyph", <<"x">>, <<"B">>),
    ItemShape("caption", <<"x">>, <<"A">>) }

\* children of the root container: style objects and member accesses
StyledChildren ==
  { ItemShape("styled", <<"x">>, <<"A">>), ItemShape("styled", <<"x">>, <<"B">>),
    ItemShape("field", <<"x">>, <<"A">>), ItemShape("field", <<"x">>, <<"B">>) }

\* children of the root container: the same attribute name at two depths
PairChildren ==
  { ItemShape("pair", <<"x">>, <<"A">>), ItemShape("pair", <<"x">>, <<"B">>) }

\* children of the root container: containers with several repeated groups
GridChildren ==
  { ItemShape("grid", <<"x">>, <<"B">>), ItemShape("mosaic", <<"x">>, <<"B">>),
    ItemShape("rows", <<"x">>, <<"B">>) }

\* children used together with a prelude
PlainChildren ==
  { ItemShape("caption", <<"x">>, <<"A">>),
    ItemShape("record", <<"x">>, <<"A">>), ItemShape("record", <<"x">>, <<"B">>) }

MaxChildren == 3

ChildLists(alphabet) == UNION { [1..n -> alphabet] : n \in 1..MaxChildren }

RootOf(kids) == jsxElement(div, <<>>, kids)

\* what else the module declares or mentions
Preludes ==
  { <<>>,
    <<importDeclaration(ExtractedItem)>>,
    <<importDeclaration(ExtractedItem),
      importDeclaration(ExtractedItem \o <<"2">>),
      importDeclaration(lowerFirst(ExtractedItem) \o DataSuffix)>>,
    <<expressionStatement(ExtractedItem)>> }

Programs ==
  { <<componentDeclaration(FrameComponent, RootOf(kids))>> :
      kids \in ChildLists(FlatChildren) \cup ChildLists(CaptionChildren)
                 \cup ChildLists(RichChildren) \cup ChildLists(ComponentChildren)
                 \cup ChildLists(GlyphChildren) \cup ChildLists(StyledChildren)
                 \cup ChildLists(PairChildren) \cup ChildLists(GridChildren) }
  \cup
  { prelude \o <<componentDeclaration(FrameComponent, RootOf(kids))>> :
      prelude \in Preludes, kids \in ChildLists(PlainChildren) }

MinRepeatsValues == {2, 3}

OptionSets ==
  [componentName : {ExtractedItem}, preferMap : BOOLEAN, minRepeats : MinRepeatsValues]

(***************************************************************************)
(* transformJsx as a state machine: one step per visited JSXElement        *)
(***************************************************************************)
MaxRuns == 2

\* the declarations traverse() will enter, in program order
JsxDeclIds(body) ==
  LET idx == SelectIdx(Len(body),
                { i \in 1..Len(body) :
                    body[i].type \in {"FunctionDeclaration", "VariableDeclaration"}
                    /\ HasJsx(body[i]) })
  IN [k \in 1..Len(idx) |-> body[idx[k]].id]

\* a source text: the program it parses to and how it is laid out
SourceText(layout, body) == [layout |-> layout, body |-> body]

\* the text convertJSX writes: "return (" and ");" on lines of their own around
\* the markup, the closing "};" indented by two columns
WrittenLayout == [parenthesized |-> TRUE, closingIndent |-> 2]

\* the text @babel/generator prints: no parentheses around the returned markup,
\* top-level statements at column 0
GeneratedLayout == [parenthesized |-> FALSE, closingIndent |-> 0]

\* parse(code, ...): the layout is not part of the tree
parse(code) == [body |-> code.body]

\* generate(ast, ...).code: the tree printed in the generator's own layout
generate(tree) == SourceText(GeneratedLayout, tree.body)

NoResult == [code |-> SourceText(GeneratedLayout, <<>>), changed |-> FALSE]

\* const ast = parse(code); let changed = false; new Set(); new Set(); traverse(ast, ...)
BeginCall(code) ==
  /\ source' = code
  /\ ast' = parse(code)
  /\ scope' = Crawl(parse(code).body)
  /\ usedNames' = {}
  /\ generatedComponents' = {}
  /\ changed' = FALSE
  /\ queue' = JsxDeclIds(parse(code).body)
  /\ cur' = <<>>
  /\ stack' = <<>>
  /\ commits' = <<>>
  /\ pc' = "traverse"

Init ==
  \E prog \in Programs, opts \in OptionSets :
    /\ source = SourceText(WrittenLayout, prog)
    /\ ast = parse(SourceText(WrittenLayout, prog))
    /\ scope = Crawl(prog)
    /\ options = opts
    /\ usedNames = {}
    /\ generatedComponents = {}
    /\ changed = FALSE
    /\ queue = JsxDeclIds(prog)
    /\ cur = <<>>
    /\ stack = <<>>
    /\ commits = <<>>
    /\ pc = "traverse"
    /\ result = NoResult
    /\ runs = 0
    /\ ResolverIdle
    /\ LayoutIdle
    /\ ServerIdle
    /\ DownloadIdle
    /\ PipelineIdle
    /\ CliIdle

CurDecl == ast.body[DeclIdx(ast.body, cur)]

TopFrame == stack[Len(stack)]

CurContainer == NodeAt(JsxOf(CurDecl), TopFrame.path)

CurNode == CurContainer.children[Head(TopFrame.pending)]

\* traversal enters the next declaration; its root element has no JSX parent,
\* so the visitor returns for it and its children are queued
EnterDeclaration ==
  /\ pc = "traverse"
  /\ stack = <<>>
  /\ queue # <<>>
  /\ LET root == JsxOf(ast.body[DeclIdx(ast.body, Head(queue))])
         stk == PopDone(<<Frame(<<>>, root)>>)
     IN /\ stack' = stk
        /\ cur' = IF stk = <<>> THEN <<>> ELSE Head(queue)
  /\ queue' = Tail(queue)
  /\ UNCHANGED <<ast, scope, options, usedNames, generatedComponents, changed,
                 pc, source, result, runs, commits>>
  /\ UNCHANGED <<resolverVars, pipelineVars, cliVars, downloadVars, serverVars,
                 layoutVars>>

\* the visitor reserves the template name before it tests the content of the
\* first member
VisitReturnReserving ==
  /\ pc = "traverse"
  /\ stack # <<>>
  /\ Decision(CurNode, CurContainer, options, generatedComponents) # "extract"
  /\ LET k == Head(TopFrame.pending)
         rest == [stack EXCEPT ![Len(stack)].pending = Tail(@)]
         stk == PopDone(Append(rest, Frame(Append(TopFrame.path, k), CurNode)))
     IN /\ stack' = stk
        /\ cur' = IF stk = <<>> THEN <<>> ELSE cur
  /\ usedNames' =
       IF Decision(CurNode, CurContainer, options, generatedComponents) = "no-content"
       THEN usedNames \cup {getUniqueName(options.componentName, usedNames, scope)}
       ELSE usedNames
  /\ UNCHANGED <<ast, scope, options, generatedComponents, changed,
                 queue, pc, source, result, runs, commits>>
  /\ UNCHANGED <<resolverVars, pipelineVars, cliVars, downloadVars, serverVars,
                 layoutVars>>

\* the visitor returns early: nothing changes, the children of the node are queued
VisitReturn ==
  /\ pc = "traverse"
  /\ stack # <<>>
  /\ Decision(CurNode, CurContainer, options, generatedComponents) # "extract"
  /\ LET k == Head(TopFrame.pending)
         rest == [stack EXCEPT ![Len(stack)].pending = Tail(@)]
         stk == PopDone(Append(rest, Frame(Append(TopFrame.path, k), CurNode)))
     IN /\ stack' = stk
        /\ cur' = IF stk = <<>> THEN <<>> ELSE cur
  /\ UNCHANGED <<ast, scope, options, usedNames, generatedComponents, changed,
                 queue, pc, source, result, runs, commits>>
  /\ UNCHANGED <<resolverVars, pipelineVars, cliVars, downloadVars, serverVars,
                 layoutVars>>

\* the visitor commits an extraction for the container of the visited node
VisitExtract ==
  /\ pc = "traverse"
  /\ stack # <<>>
  /\ Decision(CurNode, CurContainer, options, generatedComponents) = "extract"
  /\ LET container == CurContainer
         group == bestGroup(container, options.minRepeats)
         first == FirstOf(container, group)
         sites == findVariableSites(first, SecondOf(container, group))
         compName == getUniqueName(options.componentName, usedNames, scope)
         used1 == usedNames \cup {compName}
         compDecl == createComponent(compName, first, sites)
         refs == AdditionalRefs(ReplaceAllSites(first, sites), sites)
         useMap == UseMap(container, group, options)
         arrName == IF useMap
                    THEN getUniqueName(lowerFirst(compName) \o DataSuffix, used1, scope)
                    ELSE <<>>
         idx == GroupIndices(container, group)
         arrDecl == arrayDeclaration(arrName,
                      [i \in 1..Len(idx) |-> DataItem(container.children[idx[i]], sites)])
         kids == ReplacedChildren(container, group, compName, arrName, sites, refs, useMap)
         decl == WithJsx(CurDecl, SetChildrenAt(JsxOf(CurDecl), TopFrame.path, kids))
         body == [ast.body EXCEPT ![DeclIdx(ast.body, cur)] = decl]
         stk == PopDone([stack EXCEPT ![Len(stack)].pending =
                           ResyncPending(Tail(@), container, group, useMap)])
     IN /\ usedNames' = IF useMap THEN used1 \cup {arrName} ELSE used1
        /\ generatedComponents' = generatedComponents \cup {compName}
        /\ ast' = [body |-> (IF useMap THEN <<compDecl, arrDecl>> ELSE <<compDecl>>) \o body]
        /\ queue' = Append(queue, compName)
        /\ changed' = TRUE
        /\ stack' = stk
        /\ cur' = IF stk = <<>> THEN <<>> ELSE cur
        /\ commits' = Append(commits,
              [decl |-> cur, path |-> TopFrame.path, before |-> container,
               after |-> kids, group |-> group, name |-> compName,
               arrName |-> arrName, sites |-> sites, useMap |-> useMap,
               template |-> compDecl])
  /\ UNCHANGED <<scope, options, pc, source, result, runs>>
  /\ UNCHANGED <<resolverVars, pipelineVars, cliVars, downloadVars, serverVars,
                 layoutVars>>

\* const output = generate(ast); return { code: output.code, changed }
Finish ==
  /\ pc = "traverse"
  /\ stack = <<>>
  /\ queue = <<>>
  /\ pc' = "done"
  /\ result' = [code |-> generate(ast), changed |-> changed]
  /\ runs' = runs + 1
  /\ UNCHANGED <<ast, scope, options, usedNames, generatedComponents, changed,
                 queue, cur, stack, source, commits>>
  /\ UNCHANGED <<resolverVars, pipelineVars, cliVars, downloadVars, serverVars,
                 layoutVars>>

\* transformJsx is applied to its own output (convertJSX, then convertFromUrl)
Rerun ==
  /\ pc = "done"
  /\ runs < MaxRuns
  /\ BeginCall(result.code)
  /\ UNCHANGED <<options, result, runs>>
  /\ UNCHANGED <<resolverVars, pipelineVars, cliVars, downloadVars, serverVars,
                 layoutVars>>

Next == EnterDeclaration \/ VisitReturn \/ VisitExtract \/ Finish \/ Rerun

Spec == Init /\ [][Next]_vars

(***************************************************************************)
(* Inlining of templates (used to state the round trip)                    *)
(***************************************************************************)
Undefined == [type |-> "undefined"]

IsTemplate(body, name) ==
  \E i \in 1..Len(body) : body[i].type = "FunctionDeclaration" /\ body[i].id = name

TemplateOf(body, name) ==
  body[CHOOSE i \in 1..Len(body) :
         body[i].type = "FunctionDeclaration" /\ body[i].id = name]

IsDataTable(body, name) ==
  \E i \in 1..Len(body) :
     /\ body[i].type = "VariableDeclaration"
     /\ body[i].id = name
     /\ body[i].init.type = "ArrayExpression"

DataTableOf(body, name) ==
  body[CHOOSE i \in 1..Len(body) :
         body[i].type = "VariableDeclaration" /\ body[i].id = name].init.elements

\* the value an instantiation passes for a parameter
ArgOf(inst, param) ==
  LET hits == { i \in 1..Len(inst.attributes) :
                  isJSXAttribute(inst.attributes[i]) /\ inst.attributes[i].name = param }
  IN IF hits = {} THEN Undefined
     ELSE LET v == inst.attributes[CHOOSE i \in hits : \A j \in hits : i >= j].value
          IN IF isJSXExpressionContainer(v) THEN v.expression ELSE v

\* the value a record of a data table passes for a parameter ({...d})
FieldOf(item, param) ==
  LET hits == { i \in 1..Len(item.properties) : item.properties[i].key.name = param }
  IN IF hits = {} THEN Undefined
     ELSE item.properties[CHOOSE i \in hits : \A j \in hits : i >= j].value

\* variable references of an expression are replaced by their values
RECURSIVE SubstExpr(_, _)
SubstExpr(e, env) ==
  CASE e.type = "Identifier" -> IF e.name \in DOMAIN env THEN env[e.name] ELSE e
    [] e.type = "MemberExpression" -> [e EXCEPT !.object = SubstExpr(e.object, env)]
    [] e.type = "ObjectExpression" ->
         [e EXCEPT !.properties =
            <<>> \o [i \in 1..Len(e.properties) |->
                       [e.properties[i] EXCEPT !.value = SubstExpr(@, env)]]]
    [] OTHER -> e

SubstAttr(attr, env) ==
  IF attr.type = "JSXSpreadAttribute"
  THEN [attr EXCEPT !.argument = SubstExpr(@, env)]
  ELSE IF isJSXExpressionContainer(attr.value)
       THEN [attr EXCEPT !.value.expression = SubstExpr(@, env)]
       ELSE attr

RECURSIVE Subst(_, _)
Subst(node, env) ==
  IF isJSXElement(node)
  THEN [node EXCEPT
          !.attributes = <<>> \o [i \in 1..Len(node.attributes) |->
                                    SubstAttr(node.attributes[i], env)],
          !.children = <<>> \o [i \in 1..Len(node.children) |->
                                  Subst(node.children[i], env)]]
  ELSE IF isJSXExpressionContainer(node)
       THEN [node EXCEPT !.expression = SubstExpr(@, env)]
       ELSE node

RECURSIVE Flatten(_)
Flatten(seqs) == IF seqs = <<>> THEN <<>> ELSE Head(seqs) \o Flatten(Tail(seqs))

\* a literal attribute value or text child, whichever way it is written
NormAttr(attr) ==
  IF isJSXAttribute(attr) /\ attr.value.type = "StringLiteral"
  THEN [attr EXCEPT !.value = jsxExpressionContainer(attr.value)]
  ELSE attr

\* every instantiation is replaced by the template body with the parameters
\* replaced by the arguments; an iteration by one body per record
RECURSIVE InlineNode(_, _)
RECURSIVE InlineChild(_, _)
InlineChild(body, ch) ==
  IF isJSXElement(ch) THEN
    IF IsTemplate(body, ch.name)
    THEN LET tpl == TemplateOf(body, ch.name)
             env == [prm \in Range(tpl.params) |-> ArgOf(ch, prm)]
         IN <<InlineNode(body, Subst(tpl.body, env))>>
    ELSE <<InlineNode(body, ch)>>
  ELSE IF isJSXExpressionContainer(ch) /\ ch.expression.type = "CallExpression"
          /\ IsTemplate(body, ch.expression.body.name)
          /\ IsDataTable(body, ch.expression.callee.object.name)
  THEN LET tpl == TemplateOf(body, ch.expression.body.name)
           items == DataTableOf(body, ch.expression.callee.object.name)
       IN <<>> \o [k \in 1..Len(items) |->
                     InlineNode(body,
                       Subst(tpl.body,
                             [prm \in Range(tpl.params) |-> FieldOf(items[k], prm)]))]
  ELSE IF isJSXText(ch) THEN <<jsxExpressionContainer(stringLiteral(ch.value))>>
  ELSE <<ch>>

InlineNode(body, node) ==
  [node EXCEPT
     !.attributes = <<>> \o [i \in 1..Len(node.attributes) |-> NormAttr(node.attributes[i])],
     !.children = Flatten(<<>> \o [i \in 1..Len(node.children) |->
                                     InlineChild(body, node.children[i])])]

\* the markup a declaration of a program stands for
Inlined(body, id) == InlineNode(body, JsxOf(body[DeclIdx(body, id)]))

SourceRoot == JsxOf(source.body[DeclIdx(source.body, FrameComponent)])

FirstDone == pc = "done" /\ runs = 1

(***************************************************************************)
(* Properties of the Repetition Extractor                                  *)
(***************************************************************************)
\* the frame component stands for the same markup before and after the call
SameMarkup ==
  Inlined(result.code.body, FrameComponent) = Inlined(source.body, FrameComponent)

\* C1: when a call has finished, inlining every template at its instantiations
\* (and every iteration over its data table) gives back the markup of the
\* input, for all members of every extracted group
C1_RoundTrip == pc = "done" => SameMarkup

\* some container of the tree has m direct child elements with one signature
RECURSIVE HasRepeats(_, _)
HasRepeats(node, m) ==
  /\ isJSXElement(node)
  /\ \/ \E i \in ElementIdx(node) :
          Cardinality({ j \in ElementIdx(node) :
                          createSignature(node.children[j])
                            = createSignature(node.children[i]) }) >= m
     \/ \E i \in 1..Len(node.children) : HasRepeats(node.children[i], m)

ProgramHasRepeats(body, m) ==
  \E i \in 1..Len(body) :
     /\ body[i].type \in {"FunctionDeclaration", "VariableDeclaration"}
     /\ HasJsx(body[i])
     /\ HasRepeats(JsxOf(body[i]), m)

\* C2: a call on an input in which no container has minRepeats direct child
\* elements of one signature returns changed = false and the input text itself
C2_NoOp ==
  (pc = "done" /\ ~ProgramHasRepeats(source.body, options.minRepeats))
    => (result.changed = FALSE /\ result.code = source)

\* the templates a program declares
TemplateIdx(body) == { i \in 1..Len(body) : body[i].type = "FunctionDeclaration" }

\* the elements of a group are instantiations of a template of the program
GroupOfInstances(body, commit) ==
  \E i \in commit.group : IsTemplate(body, commit.before.children[i].name)

\* C3: no committed extraction has a group whose members instantiate a template
\* of the program, and no template's body is an instantiation of a template
C3_NonWrapping ==
  /\ \A k \in 1..Len(commits) : ~GroupOfInstances(ast.body, commits[k])
  /\ \A i \in TemplateIdx(ast.body) : ~IsTemplate(ast.body, ast.body[i].body.name)

\* a second call has finished on a program whose frame holds repeated instances
C3_Witness ==
  /\ pc = "done" /\ runs = 2
  /\ \E i \in ElementIdx(SourceRoot), j \in ElementIdx(SourceRoot) :
        /\ i # j
        /\ IsTemplate(source.body, SourceRoot.children[i].name)
        /\ SourceRoot.children[i].name = SourceRoot.children[j].name
        /\ Len(SourceRoot.children[i].attributes) > 3

\* every name generated by the call, in the order of generation
GeneratedNames ==
  Flatten([k \in 1..Len(commits) |->
             IF commits[k].useMap THEN <<commits[k].name, commits[k].arrName>>
             ELSE <<commits[k].name>>])

PairwiseDistinct(names) ==
  \A i \in 1..Len(names), j \in 1..Len(names) : i # j => names[i] # names[j]

\* C4 as stated: the generated names differ from one another and from every
\* identifier bound or referenced in the program handed to the call
C4_CollisionSafety ==
  /\ PairwiseDistinct(GeneratedNames)
  /\ Range(GeneratedNames) \cap
       (ProgramBindings(source.body) \cup InnerBindings(source.body)
          \cup Mentioned(source.body)) = {}

\* C4: the names generated by a call differ from one another and from every
\* identifier that has a binding in the program handed to the call
C4_BoundNamesAvoided ==
  /\ PairwiseDistinct(GeneratedNames)
  /\ Range(GeneratedNames) \cap
       (ProgramBindings(source.body) \cup InnerBindings(source.body)) = {}

\* a template and its data table were generated although both base names and
\* the first suffixed template name were taken
C4_Witness ==
  /\ pc = "done"
  /\ Len(GeneratedNames) >= 2
  /\ options.componentName \in ProgramBindings(source.body)
  /\ \E k \in 1..Len(commits) : commits[k].name # options.componentName

ThreeDivs ==
  <<ItemShape("labelled", <<"x">>, <<"A">>), ItemShape("labelled", <<"x">>, <<"B">>),
    ItemShape("labelled", <<"x">>, <<"C">>)>>

\* the children of the frame are instantiations of one template, or one iteration
AllInstances(body, kids) ==
  \/ /\ Len(kids) = 3
     /\ \A i \in 1..3 : isJSXElement(kids[i]) /\ IsTemplate(body, kids[i].name)
     /\ \A i \in 1..3 : kids[i].name = kids[1].name
  \/ /\ Len(kids) = 1
     /\ isJSXExpressionContainer(kids[1])
     /\ kids[1].expression.type = "CallExpression"

\* C5: for three sibling div.x elements that wrap a span with the texts A, B
\* and C the call returns one template, three instantiations of it (or one
\* iteration), and the same markup once the template is inlined
C5_ThreeDivs ==
  (FirstDone /\ SourceRoot.children = ThreeDivs)
    => /\ result.changed
       /\ Cardinality(TemplateIdx(result.code.body)) = 1
       /\ AllInstances(result.code.body,
                       JsxOf(result.code.body[DeclIdx(result.code.body,
                                                      FrameComponent)]).children)
       /\ SameMarkup

\* the members of a committed group whose tag is in the exclusion set
ExcludedMembers(commit) ==
  { i \in commit.group :
      toLowerCase(getElementTagName(commit.before.children[i]))
        \in SKIP_AUTO_COMPONENT_TAGS }

\* C17: no member of an extracted group has a tag of the exclusion set
C17_ExcludedTagsUntouched ==
  \A k \in 1..Len(commits) : ExcludedMembers(commits[k]) = {}

\* the variables an expression or a piece of markup reads
RECURSIVE VarRefs(_)
VarRefs(n) ==
  CASE n.type = "Identifier" -> {n.name}
    [] n.type = "MemberExpression" -> VarRefs(n.object)
    [] n.type = "ObjectExpression" ->
         UNION { VarRefs(n.properties[i].value) : i \in 1..Len(n.properties) }
    [] n.type = "CallExpression" ->
         VarRefs(n.callee) \cup
           (VarRefs(n.body) \ { n.params[i].name : i \in 1..Len(n.params) })
    [] n.type = "JSXExpressionContainer" -> VarRefs(n.expression)
    [] n.type = "JSXSpreadAttribute" -> VarRefs(n.argument)
    [] n.type = "JSXAttribute" -> VarRefs(n.value)
    [] n.type = "JSXElement" ->
         UNION { VarRefs(n.attributes[i]) : i \in 1..Len(n.attributes) }
         \cup UNION { VarRefs(n.children[i]) : i \in 1..Len(n.children) }
    [] OTHER -> {}

PassThroughParams(commit) ==
  Range(commit.template.params) \ Range(SiteKeys(commit.sites))

\* C18: the pass-through parameters of a template are exactly the identifiers
\* its body references as variables that are not variable-site keys; property
\* keys of object literals and property names of member accesses are not among them
C18_PassThroughExact ==
  \A k \in 1..Len(commits) :
     PassThroughParams(commits[k]) =
       VarRefs(commits[k].template.body) \ Range(SiteKeys(commits[k].sites))

\* C19: within one template the property keys of the variable sites are
\* pairwise distinct
C19_SiteKeysDistinct ==
  \A k \in 1..Len(commits) :
     \A i, j \in 1..Len(commits[k].sites) :
        i # j => commits[k].sites[i].propKey # commits[k].sites[j].propKey

\* the element children of a container that have the signature of child i
SignatureGroup(container, i) ==
  { j \in ElementIdx(container) :
      createSignature(container.children[j]) = createSignature(container.children[i]) }

FirstMember(group) == CHOOSE i \in group : \A j \in group : i <= j

\* the signature groups of a container with at least minRepeats members
QualifyingGroups(container, minRepeats) ==
  { g \in { SignatureGroup(container, i) : i \in ElementIdx(container) } :
      Cardinality(g) >= minRepeats }

\* C20: the group chosen for a container is a signature group with at least
\* minRepeats members, no qualifying group has more members, and among the
\* qualifying groups of that size its first member comes first in the document
C20_LargestGroupFirst ==
  \A k \in 1..Len(commits) :
     LET container == commits[k].before
         chosen == commits[k].group
         groups == QualifyingGroups(container, options.minRepeats)
     IN /\ chosen \in groups
        /\ \A g \in groups :
              \/ Cardinality(g) < Cardinality(chosen)
              \/ /\ Cardinality(g) = Cardinality(chosen)
                 /\ FirstMember(chosen) <= FirstMember(g)

\* in one call a group was chosen ahead of a later group of the same size, and
\* a group was chosen over an earlier group with fewer members
C20_Witness ==
  /\ \E k \in 1..Len(commits) :
        \E g \in QualifyingGroups(commits[k].before, options.minRepeats) :
           /\ g # commits[k].group
           /\ Cardinality(g) = Cardinality(commits[k].group)
  /\ \E k \in 1..Len(commits) :
        \E g \in QualifyingGroups(commits[k].before, options.minRepeats) :
           /\ Cardinality(g) < Cardinality(commits[k].group)
           /\ FirstMember(g) < FirstMember(commits[k].group)

\* the children that count as meaningful: non-blank text, elements, and
\* expression containers that are not empty
MeaningfulChildren(node) ==
  { i \in 1..Len(node.children) :
      \/ node.children[i].type = "JSXText" /\ trim(node.children[i].value) # <<>>
      \/ node.children[i].type = "JSXElement"
      \/ /\ node.children[i].type = "JSXExpressionContainer"
         /\ node.children[i].expression.type # "JSXEmptyExpression" }

\* at most one meaningful child, no non-blank literal text child, at most 3 attributes
FailsHeuristic(node) ==
  /\ Cardinality(MeaningfulChildren(node)) <= 1
  /\ \A i \in 1..Len(node.children) :
        node.children[i].type = "JSXText" => trim(node.children[i].value) = <<>>
  /\ Len(node.attributes) <= 3

\* C21: no extraction is committed for a group whose first or second member
\* fails the meaningful-content heuristic
C21_NoExtractionWithoutContent ==
  \A k \in 1..Len(commits) :
     /\ ~FailsHeuristic(FirstOf(commits[k].before, commits[k].group))
     /\ ~FailsHeuristic(SecondOf(commits[k].before, commits[k].group))

\* a call has finished without an extraction on a frame whose largest group
\* has two differing members that fail the heuristic
C21_Witness ==
  /\ pc = "done"
  /\ commits = <<>>
  /\ LET group == bestGroup(SourceRoot, options.minRepeats)
     IN /\ Cardinality(group) >= 2
        /\ FailsHeuristic(FirstOf(SourceRoot, group))
        /\ FailsHeuristic(SecondOf(SourceRoot, group))
        /\ findVariableSites(FirstOf(SourceRoot, group),
                             SecondOf(SourceRoot, group)) # <<>>

\* the data table a program declares under a name
TableOf(body, name) ==
  body[CHOOSE i \in 1..Len(body) :
         /\ body[i].type = "VariableDeclaration" /\ body[i].id = name
         /\ body[i].init.type = "ArrayExpression"
         /\ \A j \in 1..(i - 1) : body[j].id # name].init.elements

\* the value a record holds under a key: of several properties with one key
\* the last one counts
RecordField(record, key) ==
  LET hits == { i \in 1..Len(record.properties) : record.properties[i].key.name = key }
  IN IF hits = {} THEN Null
     ELSE record.properties[CHOOSE i \in hits : \A j \in hits : j <= i].value

\* the element of an occurrence a site's path leads to (0-based child positions)
RECURSIVE ElementAtSite(_, _)
ElementAtSite(occurrence, path) ==
  IF path = <<>> THEN occurrence
  ELSE ElementAtSite(occurrence.children[path[1] + 1], Tail(path))

\* the literal found at a site's path in an occurrence
ValueAtSite(occurrence, site) ==
  IF site.kind = "text" THEN getChildLiteral(ElementAtSite(occurrence, site.path))
  ELSE LET target == ElementAtSite(occurrence, site.path)
       IN getAttrLiteral(target.attributes[
            CHOOSE i \in 1..Len(target.attributes) :
              target.attributes[i].name = site.attrName])

PositionsConsecutive(idx) == \A i \in 2..Len(idx) : idx[i] = idx[i - 1] + 1

\* the node is the iteration construct over the data table of that name
IsIterationOver(node, arrName, compName) ==
  /\ node.type = "JSXExpressionContainer"
  /\ node.expression.type = "CallExpression"
  /\ node.expression.callee.object.name = arrName
  /\ node.expression.body.name = compName

\* C22: in prefer-collapsed mode a group at consecutive positions is replaced
\* by one iteration construct over a data table with one record per occurrence,
\* in document order, each record holding under every variable-site key the
\* value found at that site in the occurrence; otherwise every occurrence is
\* replaced by an instantiation of its own
C22_CollapseOrInstantiate ==
  \A k \in 1..Len(commits) :
     LET commit == commits[k]
         kids == commit.before.children
         idx == GroupIndices(commit.before, commit.group)
     IN IF options.preferMap /\ PositionsConsecutive(idx)
        THEN /\ Len(commit.after) = Len(kids) - Len(idx) + 1
             /\ IsIterationOver(commit.after[idx[1]], commit.arrName, commit.name)
             /\ IsDataTable(ast.body, commit.arrName)
             /\ LET items == TableOf(ast.body, commit.arrName)
                IN /\ Len(items) = Len(idx)
                   /\ \A m \in 1..Len(idx), s \in 1..Len(commit.sites) :
                         RecordField(items[m], commit.sites[s].propKey)
                           = ValueAtSite(kids[idx[m]], commit.sites[s])
        ELSE /\ Len(commit.after) = Len(kids)
             /\ \A i \in commit.group :
                   /\ commit.after[i].type = "JSXElement"
                   /\ commit.after[i].name = commit.name

\* the names an instantiation gives a value to: its named attributes, and for
\* a spread of the iteration's record the fields of that record
NamedAttributes(node) ==
  { node.attributes[i].name :
      i \in { j \in 1..Len(node.attributes) : node.attributes[j].type = "JSXAttribute" } }

RecordKeys(record) ==
  { record.properties[i].key.name : i \in 1..Len(record.properties) }

\* C23: every instantiation of a template, per occurrence or inside a collapsed
\* iteration, supplies a value for every parameter of the template
C23_EveryParameterSupplied ==
  \A k \in 1..Len(commits) :
     LET commit == commits[k]
         params == Range(commit.template.params)
         idx == GroupIndices(commit.before, commit.group)
     IN IF commit.useMap
        THEN LET inner == commit.after[idx[1]].expression.body
                 items == TableOf(ast.body, commit.arrName)
             IN \A m \in 1..Len(items) :
                   params \subseteq NamedAttributes(inner) \cup RecordKeys(items[m])
        ELSE \A i \in commit.group :
                params \subseteq NamedAttributes(commit.after[i])

\* C24: in one pass no container has more than one extraction committed for it
C24_OneExtractionPerContainer ==
  \A k, l \in 1..Len(commits) :
     (k # l /\ commits[k].decl = commits[l].decl) => commits[k].path # commits[l].path

\* the declarations a program had before a step, as they stand after it
DeclAfter(id) == ast'.body[DeclIdx(ast'.body, id)]

\* the step committed an extraction
Committed == Len(commits') = Len(commits) + 1

\* C25: a committed extraction leaves every declaration but the one of the
\* container as it was, changes nothing of that declaration outside the
\* container's child list, keeps every child that is not a member of the group
\* in place and in order, replaces each member at its own index in
\* per-occurrence mode and the span from the first to the last member by one
\* node in collapsed mode
C25_OnlyGroupChanges ==
  [][Committed =>
       LET commit == commits'[Len(commits')]
           old == ast.body[DeclIdx(ast.body, commit.decl)]
           before == NodeAt(JsxOf(old), commit.path).children
           after == NodeAt(JsxOf(DeclAfter(commit.decl)), commit.path).children
           idx == GroupIndices(commit.before, commit.group)
           first == idx[1]
           last == idx[Len(idx)]
       IN /\ before = commit.before.children
          /\ \A i \in 1..Len(ast.body) :
                ast.body[i].id # commit.decl => DeclAfter(ast.body[i].id) = ast.body[i]
          /\ WithJsx(DeclAfter(commit.decl),
                     SetChildrenAt(JsxOf(DeclAfter(commit.decl)), commit.path, before))
               = old
          /\ IF commit.useMap
             THEN /\ Len(after) = Len(before) - (last - first)
                  /\ SubSeq(after, 1, first - 1) = SubSeq(before, 1, first - 1)
                  /\ SubSeq(after, first + 1, Len(after))
                       = SubSeq(before, last + 1, Len(before))
                  /\ commit.group = first..last
             ELSE /\ Len(after) = Len(before)
                  /\ \A i \in 1..Len(before) :
                        IF i \in commit.group
                        THEN after[i].type = "JSXElement" /\ after[i].name = commit.name
                        ELSE after[i] = before[i]]_vars

\* an extraction was committed for a container that has children outside the
\* group after the group's first member, in collapsed mode
C25_Witness ==
  \E k \in 1..Len(commits) :
     /\ commits[k].useMap
     /\ \E i \in 1..Len(commits[k].before.children) :
           i \notin commits[k].group /\ i > FirstMember(commits[k].group)

\* C7: a visit that ends without a committed extraction leaves the program,
\* the reserved names, the generated templates and changed as they were, and a
\* call returns changed = true only with more templates than it was given
C7_AbandonNoEffect ==
  [][/\ (/\ pc = "traverse"
         /\ stack # <<>>
         /\ Decision(CurNode, CurContainer, options, generatedComponents) # "extract")
        => (/\ ast' = ast
            /\ usedNames' = usedNames
            /\ generatedComponents' = generatedComponents
            /\ changed' = changed)
     /\ (pc = "traverse" /\ pc' = "done" /\ result'.changed)
        => Cardinality(TemplateIdx(result'.code.body))
             > Cardinality(TemplateIdx(source.body))]_vars

\* a call has finished unchanged on a program with a repeated group whose
\* first two members differ
C7_Witness ==
  /\ pc = "done"
  /\ ~result.changed
  /\ result.code.body = source.body
  /\ LET group == bestGroup(SourceRoot, options.minRepeats)
     IN /\ Cardinality(group) >= 2
        /\ findVariableSites(FirstOf(SourceRoot, group),
                             SecondOf(SourceRoot, group)) # <<>>

(***************************************************************************)
(* CSS texts                                                               *)
(***************************************************************************)
\* a CSS text is the sequence of its blocks
declaration(prop, value) == [prop |-> prop, value |-> value]

cssRule(selector, decls) ==
  [type |-> "rule", selector |-> selector, declarations |-> decls]

cssComment(text) == [type |-> "comment", text |-> text]

cssAtRule(text) == [type |-> "atrule", text |-> text]

RulesOf(text) == Filter(text, { i \in 1..Len(text) : text[i].type = "rule" })

\* a JavaScript Map: its entries in insertion order
MapHas(m, k) == \E i \in 1..Len(m) : m[i].key = k

MapGet(m, k) == m[CHOOSE i \in 1..Len(m) : m[i].key = k].value

\* set() on a key the Map holds replaces the value and keeps the position
MapSet(m, k, v) ==
  IF MapHas(m, k)
  THEN [i \in 1..Len(m) |-> IF m[i].key = k THEN [key |-> k, value |-> v] ELSE m[i]]
  ELSE Append(m, [key |-> k, value |-> v])

(***************************************************************************)
(* TailwindConverter.convertCSS, as section 4.1 of the specification       *)
(* describes the resolver                                                  *)
(***************************************************************************)
\* the utility token of a declaration, "" when its property has no modelled
\* category: an exact table match, else an arbitrary-value token carrying the
\* value verbatim
Utility(decl) ==
  CASE decl = declaration("display", "flex") -> "flex"
    [] decl = declaration("margin", "16px") -> "m-4"
    [] decl = declaration("color", "#000000") -> "text-black"
    [] decl.prop = "color" -> "text-[" \o decl.value \o "]"
    [] OTHER -> ""

ResolvedIdx(decls) == { i \in 1..Len(decls) : Utility(decls[i]) # "" }

\* one converted node per rule, and the root with the declarations left over
convertCSS(text) ==
  LET rules == RulesOf(text)
  IN [nodes |-> [i \in 1..Len(rules) |->
                   [rule |-> [selector |-> rules[i].selector],
                    tailwindClasses |->
                      LET ds == Filter(rules[i].declarations,
                                       ResolvedIdx(rules[i].declarations))
                      IN [k \in 1..Len(ds) |-> Utility(ds[k])]]],
      convertedRoot |->
        [i \in 1..Len(rules) |->
           cssRule(rules[i].selector,
                   Filter(rules[i].declarations,
                          (1..Len(rules[i].declarations))
                            \ ResolvedIdx(rules[i].declarations)))]]

(***************************************************************************)
(* FigmaToTailwindConverter                                                *)
(***************************************************************************)
\* selector.split(' '), last part
RECURSIVE LastPart(_)
LastPart(selector) ==
  IF \E i \in 1..Len(selector) : selector[i] = " "
  THEN LastPart(Tail(selector))
  ELSE selector

extractClassNameFromSelector(selector) ==
  IF selector # <<>> /\ Head(selector) = "."
  THEN Tail(selector)
  ELSE IF LastPart(selector) # <<>> /\ Head(LastPart(selector)) = "."
       THEN Tail(LastPart(selector))
       ELSE selector

\* the classes recorded under the selector as it stands
RECURSIVE extractTailwindClassesBySelector(_, _)
extractTailwindClassesBySelector(classes, nodes) ==
  IF nodes = <<>> THEN classes
  ELSE extractTailwindClassesBySelector(
         IF Len(Head(nodes).tailwindClasses) > 0
         THEN MapSet(classes, Head(nodes).rule.selector, Head(nodes).tailwindClasses)
         ELSE classes,
         Tail(nodes))

RECURSIVE extractTailwindClasses(_, _)
extractTailwindClasses(classes, nodes) ==
  IF nodes = <<>> THEN classes
  ELSE LET node == Head(nodes)
           name == extractClassNameFromSelector(node.rule.selector)
       IN extractTailwindClasses(
            IF name # <<>> /\ Len(node.tailwindClasses) > 0
            THEN MapSet(classes, name, node.tailwindClasses)
            ELSE classes,
            Tail(nodes))

\* `${decl.prop}: ${decl.value}`
DeclText(decl) == decl.prop \o ": " \o decl.value

RECURSIVE extractUnsupportedDeclarations(_, _)
extractUnsupportedDeclarations(unsupported, root) ==
  IF root = <<>> THEN unsupported
  ELSE LET rule == Head(root)
           texts == [i \in 1..Len(rule.declarations) |-> DeclText(rule.declarations[i])]
       IN extractUnsupportedDeclarations(
            IF Len(texts) > 0 THEN MapSet(unsupported, rule.selector, texts)
            ELSE unsupported,
            Tail(root))

\* the fallback text: a comment, then one block per selector of the Map
generateFallbackCSS(unsupported) ==
  IF Len(unsupported) = 0 THEN <<>>
  ELSE LET idx == SelectIdx(Len(unsupported),
                    { i \in 1..Len(unsupported) : Len(unsupported[i].value) # 0 })
       IN <<cssComment("Fallback styles for Tailwind-unsupported properties")>>
          \o [k \in 1..Len(idx) |->
                cssRule(unsupported[idx[k]].key, unsupported[idx[k]].value)]

\* the call on an instance with the Maps classes and unsupported; throws says
\* whether this.converter.convertCSS(css) throws
convertCSSToTailwind(classes, unsupported, text, throws) ==
  IF throws
  THEN [tailwindClasses |-> classes, unsupportedDeclarations |-> unsupported,
        result |-> [tailwindClasses |-> <<>>, fallbackCSS |-> text,
                    unsupportedDeclarations |-> <<>>]]
  ELSE LET converted == convertCSS(text)
           classes1 == extractTailwindClasses(classes, converted.nodes)
           unsupported1 == extractUnsupportedDeclarations(unsupported,
                                                          converted.convertedRoot)
       IN [tailwindClasses |-> classes1, unsupportedDeclarations |-> unsupported1,
           result |-> [tailwindClasses |-> classes1,
                       fallbackCSS |-> generateFallbackCSS(unsupported1),
                       unsupportedDeclarations |-> unsupported1]]

(***************************************************************************)
(* Calls of convertCSSToTailwind on converter instances                    *)
(***************************************************************************)
\* no transformJsx call is in progress
ExtractorIdle ==
  /\ source = SourceText(GeneratedLayout, <<>>)
  /\ ast = [body |-> <<>>]
  /\ scope = Crawl(<<>>)
  /\ options = None
  /\ usedNames = {}
  /\ generatedComponents = {}
  /\ changed = FALSE
  /\ queue = <<>>
  /\ cur = <<>>
  /\ stack = <<>>
  /\ commits = <<>>
  /\ pc = "idle"
  /\ result = NoResult
  /\ runs = 0

flex == declaration("display", "flex")

margin == declaration("margin", "16px")

color == declaration("color", "#123456")

black == declaration("color", "#000000")

blur == declaration("filter", "blur(2px)")

clip == declaration("clip-path", "circle(50%)")

selA == <<".", "a">>

selB == <<".", "b">>

selDivA == <<"d", "i", "v", " ", ".", "a">>

\* rules whose declarations have utilities: one class name under two selectors
UtilityRules ==
  { cssRule(selA, <<flex>>), cssRule(selA, <<margin>>), cssRule(selDivA, <<color>>) }

\* rules with declarations that have no utility, alone and next to one that has
FallbackRules ==
  { cssRule(selA, <<blur>>), cssRule(selA, <<clip>>), cssRule(selB, <<black, blur>>) }

MaxRules == 2

CssTexts ==
  UNION { [1..n -> UtilityRules] \cup [1..n -> FallbackRules] : n \in 1..MaxRules }

MaxCalls == 2

ResolverInit == ExtractorIdle /\ ResolverIdle /\ PipelineIdle /\ CliIdle /\ DownloadIdle /\ ServerIdle /\ LayoutIdle

\* new FigmaToTailwindConverter(config)
NewConverter ==
  /\ calls < MaxCalls
  /\ tailwindClasses # <<>> \/ unsupportedDeclarations # <<>>
  /\ tailwindClasses' = <<>>
  /\ unsupportedDeclarations' = <<>>
  /\ UNCHANGED <<cssInput, conversion, calls>>
  /\ UNCHANGED <<extractorVars, pipelineVars, cliVars, downloadVars,
                 serverVars, layoutVars>>

\* await converter.convertCSSToTailwind(css)
ConvertCSSToTailwind ==
  /\ calls < MaxCalls
  /\ \E text \in CssTexts, throws \in BOOLEAN :
       LET r == convertCSSToTailwind(tailwindClasses, unsupportedDeclarations,
                                     text, throws)
       IN /\ cssInput' = text
          /\ tailwindClasses' = r.tailwindClasses
          /\ unsupportedDeclarations' = r.unsupportedDeclarations
          /\ conversion' = [threw |-> throws] @@ r.result
  /\ calls' = calls + 1
  /\ UNCHANGED <<extractorVars, pipelineVars, cliVars, downloadVars,
                 serverVars, layoutVars>>

ResolverNext == NewConverter \/ ConvertCSSToTailwind

ResolverSpec == ResolverInit /\ [][ResolverNext]_vars

\* the declaration is covered by the classes recorded for the rule's class name
CoveredByClasses(res, rule, decl) ==
  /\ Utility(decl) # ""
  /\ MapHas(res.tailwindClasses, extractClassNameFromSelector(rule.selector))
  /\ Utility(decl) \in
       Range(MapGet(res.tailwindClasses, extractClassNameFromSelector(rule.selector)))

\* the declaration stands under the rule's selector in the fallback text
KeptInFallback(res, rule, decl) ==
  \E i \in 1..Len(res.fallbackCSS) :
     /\ res.fallbackCSS[i].type = "rule"
     /\ res.fallbackCSS[i].selector = rule.selector
     /\ DeclText(decl) \in Range(res.fallbackCSS[i].declarations)

\* C10: after a conversion that did not throw, every declaration of every rule
\* of the input is covered by the utility classes recorded for the rule's
\* class name or stands verbatim under the rule's selector in fallbackCSS
C10_NoDeclarationLost ==
  (conversion # None /\ ~conversion.threw)
    => \A i \in 1..Len(cssInput) :
         cssInput[i].type = "rule"
           => \A k \in 1..Len(cssInput[i].declarations) :
                 \/ CoveredByClasses(conversion, cssInput[i],
                                     cssInput[i].declarations[k])
                 \/ KeptInFallback(conversion, cssInput[i],
                                   cssInput[i].declarations[k])

\* the class names and the selectors of the rules of a text
ClassNamesOf(text) ==
  { extractClassNameFromSelector(text[i].selector) :
      i \in { j \in 1..Len(text) : text[j].type = "rule" } }

SelectorsOf(text) ==
  { text[i].selector : i \in { j \in 1..Len(text) : text[j].type = "rule" } }

MapKeys(map) == { map[i].key : i \in 1..Len(map) }

\* C11: the tailwindClasses and unsupportedDeclarations a call returns hold
\* entries only for class names and selectors of the text given to that call
C11_FreshResult ==
  conversion # None
    => /\ MapKeys(conversion.tailwindClasses) \subseteq ClassNamesOf(cssInput)
       /\ MapKeys(conversion.unsupportedDeclarations) \subseteq SelectorsOf(cssInput)

\* the color values the theme table has a class for, and those classes
PaletteValues == {"#000000"}

PresetColorClasses == {"text-black"}

\* the utility classes the result holds for the class name of a rule
RecordedFor(res, rule) ==
  IF MapHas(res.tailwindClasses, extractClassNameFromSelector(rule.selector))
  THEN Range(MapGet(res.tailwindClasses, extractClassNameFromSelector(rule.selector)))
  ELSE {}

\* no later rule of the text with the same class name has a resolved declaration
LastResolvedForClass(text, i) ==
  \A j \in (i + 1)..Len(text) :
     (text[j].type = "rule"
        /\ extractClassNameFromSelector(text[j].selector)
             = extractClassNameFromSelector(text[i].selector))
       => ResolvedIdx(text[j].declarations) = {}

\* a color declaration of the rule whose value is not in the palette
OffPalette(rule) ==
  { k \in 1..Len(rule.declarations) :
      rule.declarations[k].prop = "color"
        /\ rule.declarations[k].value \notin PaletteValues }

IsDigitChar(c) == \E i \in 1..Len(DigitChars) : DigitChars[i] = c

IsAlnumChar(c) == IsLowerChar(c) \/ IsUpperChar(c) \/ IsDigitChar(c)

\* str.replace(/[^a-z0-9]+/g, "-")
RECURSIVE DashRuns(_)
DashRuns(str) ==
  IF str = <<>> THEN <<>>
  ELSE IF IsLowerChar(Head(str)) \/ IsDigitChar(Head(str))
       THEN <<Head(str)>> \o DashRuns(Tail(str))
       ELSE IF Len(str) > 1 /\ ~(IsLowerChar(str[2]) \/ IsDigitChar(str[2]))
            THEN DashRuns(Tail(str))
            ELSE <<"-">> \o DashRuns(Tail(str))

\* str.replace(/^-|-$/g, "")
StripEdgeDashes(str) ==
  LET a == IF str # <<>> /\ Head(str) = "-" THEN Tail(str) ELSE str
  IN IF a # <<>> /\ a[Len(a)] = "-" THEN SubSeq(a, 1, Len(a) - 1) ELSE a

\* str.replace(/[^a-z0-9]/gi, "")
OnlyAlnum(str) == Filter(str, { i \in 1..Len(str) : IsAlnumChar(str[i]) })

classPrefix == <<"v", "i", "b", "e", "f", "l", "o", "w", "-">>

generateClassName(node) ==
  classPrefix \o StripEdgeDashes(DashRuns(toLowerCase(node.name)))
    \o <<"-">> \o OnlyAlnum(node.id)

\* convertNode over the visible nodes of the document, in order:
\* this.styles.set(className, styles)
RECURSIVE StylesOf(_, _)
StylesOf(acc, nodes) ==
  IF nodes = <<>> THEN acc
  ELSE StylesOf(MapSet(acc, generateClassName(Head(nodes)), Head(nodes).style),
                Tail(nodes))

\* a class token of the markup
generatedClass(name) == [kind |-> "generated", name |-> name]

utilityClass(name) == [kind |-> "utility", name |-> name]

\* convertNode: one element per node, class="${className}"
MarkupOf(nodes) ==
  [i \in 1..Len(nodes) |-> [class |-> <<generatedClass(generateClassName(nodes[i]))>>]]

\* `.${className} { prop: value; ... }` for every entry of this.styles
generateCSS(styleMap) ==
  [i \in 1..Len(styleMap) |-> cssRule(<<".">> \o styleMap[i].key, styleMap[i].value)]

\* one mapping applied to the class attribute of one element
ReplaceTokens(tokens, name, utilities) ==
  Flatten([i \in 1..Len(tokens) |->
             IF tokens[i].kind = "generated" /\ tokens[i].name = name
             THEN [k \in 1..Len(utilities) |-> utilityClass(utilities[k])]
             ELSE <<tokens[i]>>])

RECURSIVE replaceCSSClassesWithTailwind(_, _)
replaceCSSClassesWithTailwind(markup, classMapping) ==
  IF classMapping = <<>> THEN markup
  ELSE LET entry == Head(classMapping)
       IN replaceCSSClassesWithTailwind(
            IF Len(entry.value) = 0 THEN markup
            ELSE [i \in 1..Len(markup) |->
                    [class |-> ReplaceTokens(markup[i].class, entry.key, entry.value)]],
            Tail(classMapping))

\* name.replace(/[^a-zA-Z0-9]/g, '').replace(/^[^a-zA-Z]+/, ''), 'Default' when
\* empty, first letter upper case, 'Component' appended unless it ends the name
RECURSIVE DropLeadingNonLetters(_)
DropLeadingNonLetters(str) ==
  IF str # <<>> /\ ~(IsLowerChar(Head(str)) \/ IsUpperChar(Head(str)))
  THEN DropLeadingNonLetters(Tail(str))
  ELSE str

ComponentSuffix == <<"C", "o", "m", "p", "o", "n", "e", "n", "t">>

generateComponentName(name) ==
  LET cleaned == DropLeadingNonLetters(OnlyAlnum(name))
      named == IF Len(cleaned) = 0 THEN <<"D", "e", "f", "a", "u", "l", "t">> ELSE cleaned
      capital == <<toUpperChar(Head(named))>> \o Tail(named)
  IN IF Len(capital) >= Len(ComponentSuffix)
        /\ SubSeq(capital, Len(capital) - Len(ComponentSuffix) + 1, Len(capital))
             = ComponentSuffix
     THEN capital
     ELSE capital \o ComponentSuffix

\* the component source text: the markup it holds and the passes it went through
\* new HTMLtoJSX(...).convert(finalHtml), wrapped into the component template
componentSource(name, markup) ==
  [component |-> name, markup |-> markup, passes |-> <<"HTMLtoJSX">>]

\* the code a transformJsx call returns for a text it could parse
transformedCode(text) == [text EXCEPT !.passes = Append(@, "transformJsx")]

\* the text the cleaner returns
cleanedCode(text) == [text EXCEPT !.passes = Append(@, "cleanup")]

tailwindDirectives ==
  <<cssAtRule("@tailwind base"), cssAtRule("@tailwind components"),
    cssAtRule("@tailwind utilities")>>

(***************************************************************************)
(* FigmaToReact.convertFromUrl                                             *)
(***************************************************************************)
figmaNode(name, id, style) == [name |-> name, id |-> id, style |-> style]

NodeNames == { <<"A">>, <<"B", " ">> }

NodeIds == { <<"1", ":", "2", "3">>, <<"1", "2", ":", "3">>, <<"3">> }

NodeStyles == { <<flex>>, <<flex, blur>> }

FigmaNodes == { figmaNode(n, i, st) : n \in NodeNames, i \in NodeIds, st \in NodeStyles }

MaxNodes == 2

\* the visible nodes of a document, root first
Documents == UNION { [1..n -> FigmaNodes] : n \in 1..MaxNodes }

ReactOptionSets ==
  [useTailwind : BOOLEAN, keepFallbackStyles : BOOLEAN,
   optimizeComponents : BOOLEAN, useCodeCleaner : BOOLEAN]

PipelineInit ==
  /\ ExtractorIdle
  /\ ResolverIdle
  /\ LayoutIdle
  /\ ServerIdle
  /\ DownloadIdle
  /\ CliIdle
  /\ step = "importFigma"
  /\ reactOptions \in ReactOptionSets
  /\ documentNode = None
  /\ failures = {}
  /\ styles = <<>>
  /\ html = <<>>
  /\ css = <<>>
  /\ tailwindCSS = <<>>
  /\ jsx = None
  /\ jsxResult = None
  /\ outcome = None

\* catch (error) { console.error(...); return null; }
ReturnNull(site) ==
  /\ failures' = failures \cup {site}
  /\ outcome' = Null
  /\ step' = "returned"

\* const figmaData = await importFigma(...); the document is taken from it
ImportFigma ==
  /\ step = "importFigma"
  /\ \/ /\ ReturnNull("importFigma")
        /\ UNCHANGED documentNode
     \/ /\ documentNode' \in Documents
        /\ step' = "convertJSX"
        /\ UNCHANGED <<failures, outcome>>
  /\ UNCHANGED <<reactOptions, styles, html, css, tailwindCSS, jsx, jsxResult>>
  /\ UNCHANGED <<extractorVars, resolverVars, cliVars, downloadVars,
                 serverVars, layoutVars>>

\* convertJSX up to the Tailwind block: convertNode, generateCSS
RenderMarkup ==
  /\ step = "convertJSX"
  /\ styles' = StylesOf(<<>>, documentNode)
  /\ html' = MarkupOf(documentNode)
  /\ css' = generateCSS(StylesOf(<<>>, documentNode))
  /\ tailwindCSS' = <<>>
  /\ step' = "tailwind"
  /\ UNCHANGED <<reactOptions, documentNode, failures, jsx, jsxResult, outcome>>
  /\ UNCHANGED <<extractorVars, resolverVars, cliVars, downloadVars,
                 serverVars, layoutVars>>

\* if (this.options.useTailwind && this.tailwindConverter) { ... css = ""; }
ConvertStyles ==
  /\ step = "tailwind"
  /\ IF reactOptions.useTailwind
     THEN \E throws \in BOOLEAN :
            LET r == convertCSSToTailwind(tailwindClasses, unsupportedDeclarations,
                                          css, throws)
            IN /\ cssInput' = css
               /\ tailwindClasses' = r.tailwindClasses
               /\ unsupportedDeclarations' = r.unsupportedDeclarations
               /\ conversion' = [threw |-> throws] @@ r.result
               /\ calls' = calls + 1
               /\ failures' = IF throws THEN failures \cup {"convertCSS"} ELSE failures
               /\ html' = replaceCSSClassesWithTailwind(html, r.result.tailwindClasses)
               /\ tailwindCSS' = IF reactOptions.keepFallbackStyles
                                    /\ r.result.fallbackCSS # <<>>
                                 THEN r.result.fallbackCSS
                                 ELSE tailwindCSS
               /\ css' = <<>>
     ELSE UNCHANGED <<resolverVars, failures, html, tailwindCSS, css>>
  /\ step' = "transformJsx"
  /\ UNCHANGED <<reactOptions, documentNode, styles, jsx, jsxResult, outcome>>
  /\ UNCHANGED <<extractorVars, cliVars, downloadVars, serverVars, layoutVars>>

\* the rest of convertJSX: HTMLtoJSX, transformJsx on the component text, the
\* returned record; an exception leaves convertJSX and is caught by convertFromUrl
ExtractInConvertJSX ==
  /\ step = "transformJsx"
  /\ \/ /\ ReturnNull("transformJsx in convertJSX")
        /\ UNCHANGED <<jsx, jsxResult>>
     \/ LET text == componentSource(generateComponentName(documentNode[1].name), html)
            r == [componentName |-> generateComponentName(documentNode[1].name),
                  jsx |-> transformedCode(text),
                  css |-> tailwindDirectives \o css \o tailwindCSS]
        IN /\ jsxResult' = r
           /\ jsx' = r.jsx
           /\ step' = "optimize"
           /\ UNCHANGED <<failures, outcome>>
  /\ UNCHANGED <<reactOptions, documentNode, styles, html, css, tailwindCSS>>
  /\ UNCHANGED <<extractorVars, resolverVars, cliVars, downloadVars,
                 serverVars, layoutVars>>

\* if (this.options.optimizeComponents) { try { jsx = transformJsx(jsx).code } catch {} }
OptimizeComponents ==
  /\ step = "optimize"
  /\ IF reactOptions.optimizeComponents
     THEN \/ /\ failures' = failures \cup {"transformJsx in convertFromUrl"}
             /\ UNCHANGED jsx
          \/ /\ jsx' = transformedCode(jsx)
             /\ UNCHANGED failures
     ELSE UNCHANGED <<jsx, failures>>
  /\ step' = "clean"
  /\ UNCHANGED <<reactOptions, documentNode, styles, html, css, tailwindCSS,
                 jsxResult, outcome>>
  /\ UNCHANGED <<extractorVars, resolverVars, cliVars, downloadVars,
                 serverVars, layoutVars>>

\* if (this.options.useCodeCleaner) { jsx = await cleanupGeneratedCodeToReadable(jsx) }
\* (the cleaner returns its input when it fails)
CleanCode ==
  /\ step = "clean"
  /\ IF reactOptions.useCodeCleaner
     THEN \/ /\ failures' = failures \cup {"cleanupGeneratedCodeToReadable"}
             /\ UNCHANGED jsx
          \/ /\ jsx' = cleanedCode(jsx)
             /\ UNCHANGED failures
     ELSE UNCHANGED <<jsx, failures>>
  /\ step' = "return"
  /\ UNCHANGED <<reactOptions, documentNode, styles, html, css, tailwindCSS,
                 jsxResult, outcome>>
  /\ UNCHANGED <<extractorVars, resolverVars, cliVars, downloadVars,
                 serverVars, layoutVars>>

\* return { jsx, assets, componentName, fonts, css }
ReturnResult ==
  /\ step = "return"
  /\ outcome' = [jsx |-> jsx, componentName |-> jsxResult.componentName,
                 css |-> jsxResult.css]
  /\ step' = "returned"
  /\ UNCHANGED <<reactOptions, documentNode, failures, styles, html, css,
                 tailwindCSS, jsx, jsxResult>>
  /\ UNCHANGED <<extractorVars, resolverVars, cliVars, downloadVars,
                 serverVars, layoutVars>>

PipelineNext ==
  \/ ImportFigma
  \/ RenderMarkup
  \/ ConvertStyles
  \/ ExtractInConvertJSX
  \/ OptimizeComponents
  \/ CleanCode
  \/ ReturnResult

PipelineSpec == PipelineInit /\ [][PipelineNext]_vars

ExtractorSites == {"transformJsx in convertJSX", "transformJsx in convertFromUrl"}

\* C8: when the extractor has thrown at one of its call sites, convertFromUrl
\* still returns a result, whose jsx went through no pass of the failed call
C8_ExtractorFailureContained ==
  (step = "returned" /\ failures \cap ExtractorSites # {})
    => /\ outcome # Null
       /\ "transformJsx in convertFromUrl" \in failures
            => Len(SelectSeq(outcome.jsx.passes, LAMBDA x : x = "transformJsx")) = 1

\* the rules a text holds
RuleSet(text) == Range(RulesOf(text))

\* C9: when the conversion has thrown, the call returned an empty class map
\* and the css it was given as fallbackCSS, and convertJSX returns a css that
\* holds every generated rule and markup with the generated class names
C9_ConversionFailureKeepsCss ==
  (jsxResult # None /\ "convertCSS" \in failures)
    => /\ conversion.tailwindClasses = <<>>
       /\ conversion.fallbackCSS = cssInput
       /\ RuleSet(generateCSS(styles)) \subseteq RuleSet(jsxResult.css)
       /\ jsxResult.jsx.markup = MarkupOf(documentNode)

\* C26: two nodes of the rendered document with different ids have different
\* class names, and the style entry under a node's class name holds its styles
C26_ClassNamePerNode ==
  Len(html) > 0
    => \A i, j \in 1..Len(documentNode) :
          documentNode[i].id # documentNode[j].id
            => /\ html[i].class # html[j].class
               /\ MapGet(styles, html[i].class[1].name) = documentNode[i].style

\* C12: a call with optimizeComponents = false returns jsx to which the
\* extractor was not applied
C12_ExtractionOnlyWhenOptimizing ==
  (step = "returned" /\ outcome # Null /\ ~reactOptions.optimizeComponents)
    => "transformJsx" \notin Range(outcome.jsx.passes)

(***************************************************************************)
(* The command line: option resolution, prompts, output paths, file writer *)
(***************************************************************************)
\* a string value; an absent option or variable is Undefined
str(chars) == [type |-> "string", value |-> chars]

\* a boolean value
bool(b) == [type |-> "boolean", value |-> b]

\* neither undefined, nor the empty string, nor false
Truthy(x) ==
  \/ x.type = "string" /\ x.value # <<>>
  \/ x.type = "boolean" /\ x.value

\* a || b
OrElse(a, b) == IF Truthy(a) THEN a ELSE b

\* process.env.FIGMA_TOKEN || process.env.FIGMA_ACCESS_TOKEN
envToken(e) == OrElse(e.FIGMA_TOKEN, e.FIGMA_ACCESS_TOKEN)

\* options.interactive || !options.url || (!options.token && no token variable)
needsInteractive(opts, e) ==
  \/ opts.interactive
  \/ ~Truthy(opts.url)
  \/ (~Truthy(opts.token) /\ ~Truthy(e.FIGMA_TOKEN) /\ ~Truthy(e.FIGMA_ACCESS_TOKEN))

DefaultComponentPath ==
  <<".", "/", "s", "r", "c", "/", "c", "o", "m", "p", "o", "n", "e", "n", "t", "s">>

DefaultAssetsDir == <<".", "/", "p", "u", "b", "l", "i", "c">>

\* the names of the questions promptForMissingInputs asks, in order
Questions(opts, e) ==
  (IF ~Truthy(opts.url) THEN <<"url">> ELSE <<>>)
  \o (IF ~Truthy(opts.token) /\ ~Truthy(envToken(e)) THEN <<"token">> ELSE <<>>)
  \o (IF opts.interactive THEN <<"component", "assets">> ELSE <<>>)

\* the merge with the environment's token taken first
promptForMissingInputsEnvFirst(opts, e, answers) ==
  LET merged == [k \in DOMAIN opts |->
                   IF k \in DOMAIN answers THEN answers[k] ELSE opts[k]]
      answered == IF "token" \in DOMAIN answers THEN answers["token"] ELSE Undefined
  IN [merged EXCEPT !.token = OrElse(envToken(e), OrElse(answered, opts.token))]

\* { ...options, ...answers, token: answers.token || options.token || envToken };
\* answers is a function from the names of the questions asked to the replies
promptForMissingInputs(opts, e, answers) ==
  IF Questions(opts, e) = <<>>
  THEN [opts EXCEPT !.token = OrElse(opts.token, envToken(e))]
  ELSE LET merged == [k \in DOMAIN opts |->
                        IF k \in DOMAIN answers THEN answers[k] ELSE opts[k]]
           answered == IF "token" \in DOMAIN answers THEN answers["token"]
                       ELSE Undefined
       IN [merged EXCEPT !.token = OrElse(answered,
                                          OrElse(opts.token, envToken(e)))]

EndsWith(chars, suffix) ==
  /\ Len(chars) >= Len(suffix)
  /\ SubSeq(chars, Len(chars) - Len(suffix) + 1, Len(chars)) = suffix

\* str.replace(/\\/g, '/')
SlashesForward(chars) ==
  [i \in 1..Len(chars) |-> IF chars[i] = "\\" THEN "/" ELSE chars[i]]

\* /\.(tsx?|jsx?)$/.test(str)
hasExtension(chars) ==
  \/ EndsWith(chars, <<".", "t", "s">>) \/ EndsWith(chars, <<".", "t", "s", "x">>)
  \/ EndsWith(chars, <<".", "j", "s">>) \/ EndsWith(chars, <<".", "j", "s", "x">>)

\* str.lastIndexOf('/'), counted from 1; 0 when there is none
lastIndexOfSlash(chars) ==
  IF \E i \in 1..Len(chars) : chars[i] = "/"
  THEN CHOOSE i \in 1..Len(chars) :
         chars[i] = "/" /\ \A j \in (i + 1)..Len(chars) : chars[j] # "/"
  ELSE 0

resolveOutputPaths(opts, componentName) ==
  LET componentPath == OrElse(opts.component, str(DefaultComponentPath)).value
      normalizedPath == SlashesForward(componentPath)
      component ==
        IF EndsWith(normalizedPath, <<"/">>)
        THEN normalizedPath \o componentName \o <<".", "t", "s", "x">>
        ELSE IF hasExtension(normalizedPath)
             THEN componentPath
             ELSE normalizedPath \o <<"/">> \o componentName \o <<".", "t", "s", "x">>
      dir == SubSeq(component, 1, lastIndexOfSlash(component) - 1)
      componentDir == IF dir = <<>> THEN <<".">> ELSE dir
  IN [component |-> component,
      css |-> IF ~opts.useTailwind
              THEN str(componentDir \o <<"/">> \o componentName \o <<".", "c", "s", "s">>)
              ELSE Undefined,
      assets |-> OrElse(opts.assets, str(DefaultAssetsDir)).value]

\* the assets of a result: image-00i -> data
AssetsOf(n) ==
  [i \in 1..n |-> [filename |-> <<"image-00">> \o NumToStr(i) \o <<".png">>,
                   data |-> <<"base64">>]]

\* what convertFromUrl returns for a document when no collaborator fails:
\* convertJSX (css, Tailwind block, component text, transformJsx), then the
\* optional passes; keepFallbackStyles ?? true
convertFromUrl(doc, opts, assets) ==
  LET generated == generateCSS(StylesOf(<<>>, doc))
      r == convertCSSToTailwind(<<>>, <<>>, generated, FALSE).result
      finalHtml == IF opts.useTailwind
                   THEN replaceCSSClassesWithTailwind(MarkupOf(doc), r.tailwindClasses)
                   ELSE MarkupOf(doc)
      fallback == IF opts.useTailwind /\ r.fallbackCSS # <<>> THEN r.fallbackCSS ELSE <<>>
      plain == IF opts.useTailwind THEN <<>> ELSE generated
      text0 == transformedCode(
                 componentSource(generateComponentName(doc[1].name), finalHtml))
      text1 == IF opts.optimizeComponents THEN transformedCode(text0) ELSE text0
      text2 == IF opts.useCodeCleaner THEN cleanedCode(text1) ELSE text1
  IN [jsx |-> text2,
      assets |-> assets,
      componentName |-> generateComponentName(doc[1].name),
      fonts |-> <<>>,
      css |-> tailwindDirectives \o plain \o fallback]

\* result.css && result.css.trim() !== ''
HasCssText(text) == text # <<>>

\* the content of the component file: the jsx, the fonts comment put before it
\* when there are fonts, and whether an import of the css file is prepended
componentContent(text, fonts, cssPath) ==
  [jsx |-> text, fonts |-> fonts, cssImport |-> Truthy(cssPath)]

\* what convertCommand hands to saveConversionResults as force: the call has
\* no third argument
ForceArgument == Undefined

FigmaUrl == str(<<"https://www.figma.com/design/k">>)

CliToken == str(<<"cli-token">>)

TokenValues == {Undefined, str(<<>>), CliToken}

EnvSets ==
  [FIGMA_TOKEN : {Undefined, str(<<"env-token">>)},
   FIGMA_ACCESS_TOKEN : {Undefined, str(<<"env-access-token">>)}]

ComponentPaths ==
  {Undefined, str(<<"o", "u", "t", "/">>), str(<<"o", "u", "t", "/", "A", ".", "t", "s", "x">>)}

CliOptionSets ==
  [url : {Undefined, FigmaUrl}, token : TokenValues, component : ComponentPaths,
   assets : {Undefined}, useTailwind : BOOLEAN, optimizeComponents : {FALSE},
   useCodeCleaner : {FALSE}, interactive : BOOLEAN, force : BOOLEAN]

\* the replies the user can give to the questions asked
AnswerSets(opts, e) ==
  LET asked == Range(Questions(opts, e))
      replies(k) ==
        CASE k = "url" -> {FigmaUrl}
          [] k = "token" -> {str(<<"typed-token">>)}
          [] k = "component" -> {OrElse(opts.component, str(DefaultComponentPath))}
          [] k = "assets" -> {OrElse(opts.assets, str(DefaultAssetsDir))}
  IN { f \in [asked -> UNION { replies(k) : k \in asked }] :
         \A k \in asked : f[k] \in replies(k) }

question(type, name) == [type |-> type, name |-> name]

\* the prompts.PromptObject pushed for a question name
questionFor(name) ==
  IF name = "token" THEN question("password", name) ELSE question("text", name)

MaxAssets == 1

\* the documents converted from the command line: one frame
CliDocuments == { <<figmaNode(<<"A">>, <<"3">>, st)>> : st \in NodeStyles }

CliInit ==
  /\ ExtractorIdle
  /\ ResolverIdle
  /\ LayoutIdle
  /\ ServerIdle
  /\ DownloadIdle
  /\ PipelineIdle
  /\ cliStep = "resolve"
  /\ cliOptions \in CliOptionSets
  /\ processEnv \in EnvSets
  /\ finalOptions = None
  /\ prompted = <<>>
  /\ converter = None
  /\ conversionResult = None
  /\ paths = None
  /\ existing = {}
  /\ written = <<>>
  /\ savedFiles = None
  /\ exitCode = None

\* process.exit(code), from the catch block of convertCommand or from onCancel
Exit(code) ==
  /\ exitCode' = code
  /\ cliStep' = "exited"

\* convertCommand up to showConversionSummary: the direct path or
\* promptForMissingInputs, then the checks of url and token
ResolveInputs ==
  /\ cliStep = "resolve"
  /\ IF needsInteractive(cliOptions, processEnv)
     THEN /\ prompted' = [i \in 1..Len(Questions(cliOptions, processEnv)) |->
                            questionFor(Questions(cliOptions, processEnv)[i])]
          /\ \/ /\ Exit(0)
                /\ Questions(cliOptions, processEnv) # <<>>
                /\ UNCHANGED finalOptions
             \/ \E answers \in AnswerSets(cliOptions, processEnv) :
                  LET final == promptForMissingInputs(cliOptions, processEnv, answers)
                  IN /\ finalOptions' = final
                     /\ IF Truthy(final.url) /\ Truthy(final.token)
                        THEN cliStep' = "convert" /\ UNCHANGED exitCode
                        ELSE Exit(1)
     ELSE LET final == [cliOptions EXCEPT
                          !.token = OrElse(cliOptions.token,
                                           OrElse(processEnv.FIGMA_TOKEN,
                                                  processEnv.FIGMA_ACCESS_TOKEN))]
          IN /\ finalOptions' = final
             /\ UNCHANGED prompted
             /\ IF Truthy(final.url) /\ Truthy(final.token)
                THEN cliStep' = "convert" /\ UNCHANGED exitCode
                ELSE Exit(1)
  /\ UNCHANGED <<cliOptions, processEnv, converter, conversionResult, paths,
                 existing, written, savedFiles>>
  /\ UNCHANGED <<extractorVars, resolverVars, pipelineVars, downloadVars,
                 serverVars, layoutVars>>

\* new FigmaToReact(finalOptions.token, ...), convertFromUrl, resolveOutputPaths
Convert ==
  /\ cliStep = "convert"
  /\ LET opts == [useTailwind |-> finalOptions.useTailwind,
                  optimizeComponents |-> finalOptions.optimizeComponents,
                  useCodeCleaner |-> finalOptions.useCodeCleaner]
     IN /\ converter' = [accessToken |-> finalOptions.token, options |-> opts]
        /\ \/ /\ conversionResult' = Null
              /\ Exit(1)
              /\ UNCHANGED <<paths, savedFiles>>
           \/ \E doc \in CliDocuments, n \in 0..MaxAssets :
                LET r == convertFromUrl(doc, opts, AssetsOf(n))
                IN /\ conversionResult' = r
                   /\ paths' = resolveOutputPaths(finalOptions, r.componentName)
                   /\ savedFiles' = [component |-> <<>>, css |-> Undefined,
                                     assets |-> <<>>]
                   /\ cliStep' = "saveComponent"
                   /\ UNCHANGED exitCode
  /\ UNCHANGED <<cliOptions, processEnv, finalOptions, prompted, existing, written>>
  /\ UNCHANGED <<extractorVars, resolverVars, pipelineVars, downloadVars,
                 serverVars, layoutVars>>

\* confirmOverwrite(filePath, force): true at once with force, else the
\* question shown and the reply given (no reply counts as false)
\* the question is shown and the file is overwritten whatever the reply
confirmOverwriteAnyReply(filePath, force, reply) ==
  [shown |-> <<[type |-> "confirm", name |-> "overwrite", message |-> filePath,
                response |-> reply]>>,
   overwrite |-> TRUE]

confirmOverwrite(filePath, force, reply) ==
  IF Truthy(force)
  THEN [shown |-> <<>>, overwrite |-> TRUE]
  ELSE [shown |-> <<[type |-> "confirm", name |-> "overwrite", message |-> filePath,
                     response |-> reply]>>,
        overwrite |-> reply]

\* if (await fileExists(path)) { shouldOverwrite = await confirmOverwrite(path, force) }
overwriteCheck(filePath, force, exists, reply) ==
  IF exists THEN confirmOverwrite(filePath, force, reply)
  ELSE [shown |-> <<>>, overwrite |-> TRUE]

\* paths.css && result.css && result.css.trim() !== ''
willSaveCss == Truthy(paths.css) /\ HasCssText(conversionResult.css)

\* saveConversionResults: saveComponent
SaveComponent ==
  /\ cliStep = "saveComponent"
  /\ \E exists \in BOOLEAN, reply \in BOOLEAN :
       LET check == overwriteCheck(paths.component, ForceArgument, exists, reply)
       IN /\ existing' = IF exists THEN existing \cup {paths.component} ELSE existing
          /\ prompted' = prompted \o check.shown
          /\ IF check.overwrite
             THEN /\ written' =
                       Append(written,
                              [kind |-> "component", path |-> paths.component,
                               content |-> componentContent(
                                             conversionResult.jsx,
                                             conversionResult.fonts,
                                             IF willSaveCss THEN paths.css
                                             ELSE Undefined)])
                  /\ savedFiles' = [savedFiles EXCEPT !.component = paths.component]
                  /\ cliStep' = "saveCss"
                  /\ UNCHANGED exitCode
             ELSE /\ Exit(1)
                  /\ UNCHANGED <<written, savedFiles>>
  /\ UNCHANGED <<cliOptions, processEnv, finalOptions, converter, conversionResult,
                 paths>>
  /\ UNCHANGED <<extractorVars, resolverVars, pipelineVars, downloadVars,
                 serverVars, layoutVars>>

\* saveConversionResults: if (willSaveCss && paths.css) { saveCss(...) }
SaveCss ==
  /\ cliStep = "saveCss"
  /\ IF willSaveCss
     THEN \E exists \in BOOLEAN, reply \in BOOLEAN :
            LET check == overwriteCheck(paths.css.value, ForceArgument, exists, reply)
            IN /\ existing' = IF exists THEN existing \cup {paths.css.value}
                              ELSE existing
               /\ prompted' = prompted \o check.shown
               /\ IF check.overwrite
                  THEN /\ written' = Append(written,
                                            [kind |-> "css",
                                             path |-> paths.css.value,
                                             content |-> conversionResult.css])
                       /\ savedFiles' = [savedFiles EXCEPT !.css = paths.css]
                       /\ cliStep' = "saveAssets"
                       /\ UNCHANGED exitCode
                  ELSE /\ Exit(1)
                       /\ UNCHANGED <<written, savedFiles>>
     ELSE /\ cliStep' = "saveAssets"
          /\ UNCHANGED <<existing, prompted, written, savedFiles, exitCode>>
  /\ UNCHANGED <<cliOptions, processEnv, finalOptions, converter, conversionResult,
                 paths>>
  /\ UNCHANGED <<extractorVars, resolverVars, pipelineVars, downloadVars,
                 serverVars, layoutVars>>

\* saveAssets: one turn of the loop, saveAsset for the next entry
SaveAsset ==
  /\ cliStep = "saveAssets"
  /\ Len(savedFiles.assets) < Len(conversionResult.assets)
  /\ \E exists \in BOOLEAN, reply \in BOOLEAN :
       LET asset == conversionResult.assets[Len(savedFiles.assets) + 1]
           assetPath == paths.assets \o <<"/">> \o asset.filename
           check == overwriteCheck(assetPath, ForceArgument, exists, reply)
       IN /\ existing' = IF exists THEN existing \cup {assetPath} ELSE existing
          /\ prompted' = prompted \o check.shown
          /\ written' = IF check.overwrite
                        THEN Append(written, [kind |-> "asset", path |-> assetPath,
                                              content |-> asset.data])
                        ELSE written
          /\ savedFiles' = [savedFiles EXCEPT !.assets = Append(@, assetPath)]
  /\ UNCHANGED <<cliStep, exitCode>>
  /\ UNCHANGED <<cliOptions, processEnv, finalOptions, converter, conversionResult,
                 paths>>
  /\ UNCHANGED <<extractorVars, resolverVars, pipelineVars, downloadVars,
                 serverVars, layoutVars>>

\* logger.showSummary(savedFiles): the command ends
ShowSummary ==
  /\ cliStep = "saveAssets"
  /\ Len(savedFiles.assets) = Len(conversionResult.assets)
  /\ cliStep' = "done"
  /\ exitCode' = 0
  /\ UNCHANGED <<cliOptions, processEnv, finalOptions, prompted, converter,
                 conversionResult, paths, existing, written, savedFiles>>
  /\ UNCHANGED <<extractorVars, resolverVars, pipelineVars, downloadVars,
                 serverVars, layoutVars>>

CliNext ==
  \/ ResolveInputs
  \/ Convert
  \/ SaveComponent
  \/ SaveCss
  \/ SaveAsset
  \/ ShowSummary

CliSpec == CliInit /\ [][CliNext]_vars

\* overwrite questions shown so far
ConfirmsShown == { i \in 1..Len(prompted) : prompted[i].type = "confirm" }

\* C13: in a run started with --force no overwrite question is ever shown
C13_ForceNeverAsks ==
  (cliStep # "idle" /\ cliOptions.force) => ConfirmsShown = {}

WrittenAt(filePath) == { i \in 1..Len(written) : written[i].path = filePath }

\* the overwrite questions answered with yes, and with no
Confirmed(filePath) ==
  \E i \in ConfirmsShown : prompted[i].message = filePath /\ prompted[i].response

Declined(filePath) ==
  \E i \in ConfirmsShown : prompted[i].message = filePath /\ ~prompted[i].response

\* C28: a file found on disk is written only after the user confirmed; after
\* a decline nothing is written under that path, the run fails for the
\* component and the css, and an asset's path is still reported
C28_NoOverwriteWithoutConsent ==
  cliStep \notin {"idle", "resolve", "convert"}
    => /\ \A i \in 1..Len(written) :
            written[i].path \in existing => Confirmed(written[i].path)
       /\ \A f \in existing :
            Declined(f)
              => /\ WrittenAt(f) = {}
                 /\ IF f = paths.component \/ paths.css = str(f)
                    THEN cliStep = "exited"
                    ELSE f \in Range(savedFiles.assets)

\* a run ended after the user declined to overwrite an asset and agreed to
\* overwrite the component
C28_Witness ==
  /\ cliStep = "done"
  /\ Confirmed(paths.component)
  /\ WrittenAt(paths.component) # {}
  /\ \E f \in existing : Declined(f) /\ f \in Range(savedFiles.assets)

\* the css of the result holds a rule
HasFallbackRules(text) == \E i \in 1..Len(text) : text[i].type = "rule"

\* C15: a finished run with Tailwind enabled whose result css holds fallback
\* rules has written that css to a file
C15_FallbackCssWritten ==
  (cliStep = "done" /\ finalOptions.useTailwind
     /\ HasFallbackRules(conversionResult.css))
    => \E i \in 1..Len(written) :
          written[i].kind = "css" /\ written[i].content = conversionResult.css

(***************************************************************************)
(* FigmaToReact.downloadAndConvertImages: concurrent downloads             *)
(***************************************************************************)
\* the part of a text after its last "." (the whole text when it has none)
RECURSIVE AfterLastDot(_)
AfterLastDot(text) ==
  IF \E i \in 1..Len(text) : text[i] = "."
  THEN AfterLastDot(SubSeq(text, (CHOOSE i \in 1..Len(text) :
                                    text[i] = "." /\ \A j \in 1..(i - 1) : text[j] # ".") + 1,
                           Len(text)))
  ELSE text

\* the part of a text before its first "?"
BeforeQuery(text) ==
  IF \E i \in 1..Len(text) : text[i] = "?"
  THEN SubSeq(text, 1, (CHOOSE i \in 1..Len(text) :
                          text[i] = "?" /\ \A j \in 1..(i - 1) : text[j] # "?") - 1)
  ELSE text

\* url.split('.').pop()?.split('?')[0]?.toLowerCase() || ''
urlExtension(address) == toLowerCase(BeforeQuery(AfterLastDot(address)))

validExtensions ==
  { <<"p","n","g">>, <<"j","p","g">>, <<"j","p","e","g">>, <<"g","i","f">>,
    <<"w","e","b","p">>, <<"s","v","g">> }

\* String(index + 1).padStart(3, '0')
padStart3(n) ==
  LET digits == NumToStr(n)
  IN [i \in 1..(3 - Len(digits)) |-> "0"] \o digits

\* `image-${String(index + 1).padStart(3, '0')}.${extension}`; position = index + 1
filenameFor(position, address) ==
  <<"i","m","a","g","e","-">> \o padStart3(position) \o <<".">>
    \o (IF urlExtension(address) \in validExtensions THEN urlExtension(address)
        ELSE <<"p","n","g">>)

\* getMimeTypeFromUrl
getMimeTypeFromUrl(address) ==
  LET extension == urlExtension(address)
  IN CASE extension = <<"j","p","g">> \/ extension = <<"j","p","e","g">> -> "image/jpeg"
       [] extension = <<"g","i","f">> -> "image/gif"
       [] extension = <<"w","e","b","p">> -> "image/webp"
       [] extension = <<"s","v","g">> -> "image/svg+xml"
       [] OTHER -> "image/png"

\* imageToBase64(buffer, mimeType): the data URL of what the address serves
imageToBase64(address, mimeType) == [mime |-> mimeType, data |-> address]

ImageAddresses ==
  { <<"a",".","p","n","g">>, <<"b",".","J","P","G","?","v">>, <<"c">> }

\* the keys of imageMap are distinct
imageRef(position) == <<"r">> \o NumToStr(position)

MaxImages == 2

ImageMaps ==
  UNION { { [i \in 1..n |-> [imageRef |-> imageRef(i), address |-> pick[i]]] :
              pick \in [1..n -> ImageAddresses] } : n \in 1..MaxImages }

DownloadInit ==
  /\ ExtractorIdle
  /\ ResolverIdle
  /\ LayoutIdle
  /\ ServerIdle
  /\ PipelineIdle
  /\ CliIdle
  /\ dlStep = "call"
  /\ imageMap \in ImageMaps
  /\ downloads = [i \in 1..Len(imageMap) |-> "pending"]
  /\ urlToFilename = <<>>
  /\ imageRefToFilename = <<>>
  /\ assetData = <<>>
  /\ downloadResult = None
  /\ imageUrls = <<>>

\* entries.map(async ...) runs every callback up to its await: all fetches start
StartDownloads ==
  /\ dlStep = "call"
  /\ downloads' = [i \in 1..Len(imageMap) |-> "fetching"]
  /\ dlStep' = "awaiting"
  /\ UNCHANGED <<imageMap, urlToFilename, imageRefToFilename, assetData,
                 downloadResult, imageUrls>>
  /\ UNCHANGED <<extractorVars, resolverVars, pipelineVars, cliVars,
                 serverVars, layoutVars>>

\* the download of entry i resolves and its callback runs to the end
DownloadSucceeds(i) ==
  /\ dlStep = "awaiting"
  /\ downloads[i] = "fetching"
  /\ LET address == imageMap[i].address
         filename == filenameFor(i, address)
     IN /\ urlToFilename' = MapSet(urlToFilename, address, filename)
        /\ imageRefToFilename' = MapSet(imageRefToFilename, imageMap[i].imageRef, filename)
        /\ assetData' = MapSet(assetData, filename,
                               imageToBase64(address, getMimeTypeFromUrl(address)))
  /\ downloads' = [downloads EXCEPT ![i] = "done"]
  /\ UNCHANGED <<dlStep, imageMap, downloadResult, imageUrls>>
  /\ UNCHANGED <<extractorVars, resolverVars, pipelineVars, cliVars,
                 serverVars, layoutVars>>

\* the entry is recorded before the download is awaited, and stays when it throws
DownloadFailsAfterRecording(i) ==
  /\ dlStep = "awaiting"
  /\ downloads[i] = "fetching"
  /\ imageRefToFilename' = MapSet(imageRefToFilename, imageMap[i].imageRef,
                                  filenameFor(i, imageMap[i].address))
  /\ downloads' = [downloads EXCEPT ![i] = "failed"]
  /\ UNCHANGED <<dlStep, imageMap, urlToFilename, assetData, downloadResult, imageUrls>>
  /\ UNCHANGED <<extractorVars, resolverVars, pipelineVars, cliVars,
                 serverVars, layoutVars>>

\* the download of entry i throws; the callback's catch returns success: false
DownloadFails(i) ==
  /\ dlStep = "awaiting"
  /\ downloads[i] = "fetching"
  /\ downloads' = [downloads EXCEPT ![i] = "failed"]
  /\ UNCHANGED <<dlStep, imageMap, urlToFilename, imageRefToFilename, assetData,
                 downloadResult, imageUrls>>
  /\ UNCHANGED <<extractorVars, resolverVars, pipelineVars, cliVars,
                 serverVars, layoutVars>>

\* Promise.all resolves once every callback has returned; convertFromUrl then
\* builds imageUrls from imageRefToFilename
ReturnDownloads ==
  /\ dlStep = "awaiting"
  /\ \A i \in 1..Len(downloads) : downloads[i] \in {"done", "failed"}
  /\ downloadResult' = [urlToFilename |-> urlToFilename,
                        imageRefToFilename |-> imageRefToFilename,
                        assets |-> assetData]
  /\ imageUrls' = [i \in 1..Len(imageRefToFilename) |->
                     [key |-> imageRefToFilename[i].key,
                      value |-> <<"/">> \o imageRefToFilename[i].value]]
  /\ dlStep' = "returned"
  /\ UNCHANGED <<imageMap, downloads, urlToFilename, imageRefToFilename, assetData>>
  /\ UNCHANGED <<extractorVars, resolverVars, pipelineVars, cliVars,
                 serverVars, layoutVars>>

DownloadNext ==
  \/ StartDownloads
  \/ \E i \in 1..Len(imageMap) : DownloadSucceeds(i)
  \/ \E i \in 1..Len(imageMap) : DownloadFails(i)
  \/ ReturnDownloads

DownloadSpec == DownloadInit /\ [][DownloadNext]_vars

\* the start of every filename of the entry at a position
PositionPrefix(position) == <<"i","m","a","g","e","-">> \o padStart3(position) \o <<".">>

HasPositionPrefix(filename, position) ==
  /\ Len(filename) > Len(PositionPrefix(position))
  /\ SubSeq(filename, 1, Len(PositionPrefix(position))) = PositionPrefix(position)

\* C27: once all downloads have settled the call has returned a result in which
\* every downloaded reference has an entry in imageRefToFilename and a file in
\* assets under the filename of its position in the input, and every failed
\* reference has neither, whatever the order of completion
C27_DownloadsIsolated ==
  dlStep = "returned"
    => /\ downloadResult # None
       /\ \A i \in 1..Len(imageMap) :
            LET ref == imageMap[i].imageRef
                files == downloadResult.assets
            IN IF downloads[i] = "done"
               THEN /\ MapHas(downloadResult.imageRefToFilename, ref)
                    /\ HasPositionPrefix(MapGet(downloadResult.imageRefToFilename, ref), i)
                    /\ MapHas(files, MapGet(downloadResult.imageRefToFilename, ref))
                    /\ MapHas(imageUrls, ref)
               ELSE /\ ~MapHas(downloadResult.imageRefToFilename, ref)
                    /\ \A k \in 1..Len(files) : ~HasPositionPrefix(files[k].key, i)
                    /\ ~MapHas(imageUrls, ref)

\* the call returned after the first download failed and a later one succeeded
C27_Witness ==
  /\ dlStep = "returned"
  /\ Len(downloads) >= 2
  /\ downloads[1] = "failed"
  /\ downloads[2] = "done"

(***************************************************************************)
(* The HTTP server: index.ts and the apiKeyAuth middleware                 *)
(***************************************************************************)

\* env.API_KEY: unset, set to the empty string, set to a key
ApiKeys == { Undefined, str(<<>>), str(<<"k">>) }

\* the x-api-key header of a request: absent, empty, the key, another key
ApiKeyHeaders == { Undefined, str(<<>>), str(<<"k">>), str(<<"x">>) }

Methods == { "GET", "POST", "OPTIONS" }

RoutePaths == { "/health", "/v1/api/vibe-figma" }

Requests == [ method : Methods, path : RoutePaths, apiKey : ApiKeyHeaders ]

\* requests one run of the server answers
MaxRequests == 2

\* env.RATE_LIMIT_MAX_REQUESTS
RateLimitMax == 1

\* keyGenerator: `api:${apiKey}` for a request with a key, 'unknown' without
\* (no x-forwarded-for and no x-real-ip header)
keyGenerator(r) ==
  IF Truthy(r.apiKey) THEN <<"api">> \o r.apiKey.value ELSE <<"unknown">>

\* the requests the limiter counted under a key
HitsOf(key) == IF MapHas(limiterHits, key) THEN MapGet(limiterHits, key) ELSE 0

\* a variant that lets every request with a non-empty key through
apiKeyAuthPresence(key, providedKey) ==
  IF ~Truthy(key) THEN "next"
  ELSE IF ~Truthy(providedKey) THEN "401"
  ELSE "next"

\* apiKeyAuth: "next" when the request goes on, "401" when it is answered here
apiKeyAuth(key, providedKey) ==
  IF ~Truthy(key) THEN "next"
  ELSE IF ~Truthy(providedKey) \/ providedKey # key THEN "401"
  ELSE "next"

\* the handler registered for the request's method and path, "" for none
RouteOf(r) ==
  IF r.method = "GET" /\ r.path = "/health" THEN "health"
  ELSE IF r.method = "POST" /\ r.path = "/v1/api/vibe-figma" THEN "vibe-figma"
  ELSE ""

\* the request is answered with a status
Answer(status) ==
  /\ resStatus' = status
  /\ srvStep' = "listening"
  /\ served' = served + 1

ServerInit ==
  /\ srvStep = "listening"
  /\ API_KEY \in ApiKeys
  /\ req = None
  /\ resStatus = 0
  /\ limiterHits = <<>>
  /\ handlerRuns = {}
  /\ served = 0
  /\ ExtractorIdle
  /\ ResolverIdle
  /\ LayoutIdle
  /\ PipelineIdle
  /\ CliIdle
  /\ DownloadIdle

\* a request arrives; logger() and secureHeaders() pass it on
Receive(r) ==
  /\ srvStep = "listening"
  /\ served < MaxRequests
  /\ req' = r
  /\ resStatus' = 0
  /\ handlerRuns' = {}
  /\ srvStep' = "cors"
  /\ UNCHANGED <<API_KEY, limiterHits, served>>
  /\ UNCHANGED <<extractorVars, resolverVars, pipelineVars, cliVars,
                 downloadVars, layoutVars>>

\* cors(): a preflight request is answered here, any other goes on
Cors ==
  /\ srvStep = "cors"
  /\ IF req.method = "OPTIONS"
     THEN Answer(204)
     ELSE /\ srvStep' = "rateLimiter"
          /\ UNCHANGED <<resStatus, served>>
  /\ UNCHANGED <<API_KEY, req, limiterHits, handlerRuns>>
  /\ UNCHANGED <<extractorVars, resolverVars, pipelineVars, cliVars,
                 downloadVars, layoutVars>>

\* rateLimiter(): the request is counted under its key and answered here once
\* the key is over the limit
RateLimiter ==
  /\ srvStep = "rateLimiter"
  /\ limiterHits' = MapSet(limiterHits, keyGenerator(req), HitsOf(keyGenerator(req)) + 1)
  /\ IF HitsOf(keyGenerator(req)) + 1 > RateLimitMax
     THEN Answer(429)
     ELSE /\ srvStep' = "apiKeyAuth"
          /\ UNCHANGED <<resStatus, served>>
  /\ UNCHANGED <<API_KEY, req, handlerRuns>>
  /\ UNCHANGED <<extractorVars, resolverVars, pipelineVars, cliVars,
                 downloadVars, layoutVars>>

\* app.use('*', apiKeyAuth())
ApiKeyAuth ==
  /\ srvStep = "apiKeyAuth"
  /\ IF apiKeyAuth(API_KEY, req.apiKey) = "401"
     THEN Answer(401)
     ELSE /\ srvStep' = "route"
          /\ UNCHANGED <<resStatus, served>>
  /\ UNCHANGED <<API_KEY, req, limiterHits, handlerRuns>>
  /\ UNCHANGED <<extractorVars, resolverVars, pipelineVars, cliVars,
                 downloadVars, layoutVars>>

\* app.get('/health'), app.post('/v1/api/vibe-figma'), app.notFound
Route ==
  /\ srvStep = "route"
  /\ \/ /\ RouteOf(req) = "health"
        /\ handlerRuns' = handlerRuns \cup {"health"}
        /\ Answer(200)
     \/ /\ RouteOf(req) = "vibe-figma"
        /\ handlerRuns' = handlerRuns \cup {"vibe-figma"}
        /\ \E status \in {200, 400, 408, 500} : Answer(status)
     \/ /\ RouteOf(req) = ""
        /\ handlerRuns' = handlerRuns
        /\ Answer(404)
  /\ UNCHANGED <<API_KEY, req, limiterHits>>
  /\ UNCHANGED <<extractorVars, resolverVars, pipelineVars, cliVars,
                 downloadVars, layoutVars>>

ServerNext ==
  \/ \E r \in Requests : Receive(r)
  \/ Cors
  \/ RateLimiter
  \/ ApiKeyAuth
  \/ Route

ServerSpec == ServerInit /\ [][ServerNext]_vars

\* the last request has been answered
Answered == srvStep = "listening" /\ served > 0

\* API_KEY is configured and the request's x-api-key is missing or differs
Unauthorised == Truthy(API_KEY) /\ (~Truthy(req.apiKey) \/ req.apiKey # API_KEY)

\* the rate limiter answered the request
OverLimit == HitsOf(keyGenerator(req)) > RateLimitMax

\* C29 as stated: with API_KEY configured a request without the right key runs
\* no route handler and is answered with 401; with API_KEY not configured every
\* request to a route reaches the route's handler
C29_UnauthorisedAnswered401 ==
  /\ (req # None /\ Unauthorised) => handlerRuns = {}
  /\ (Answered /\ Unauthorised) => resStatus = 401
  /\ (Answered /\ ~Truthy(API_KEY) /\ RouteOf(req) # "") => handlerRuns = {RouteOf(req)}

\* C29: with API_KEY configured a request without the right key runs no route
\* handler; it is answered with 401 unless cors answered it as a preflight
\* request (204) or the rate limiter answered it (429), both of which run before
\* apiKeyAuth. With API_KEY not configured no request is answered with 401, and
\* a request to a route that is past cors and the rate limiter reaches the
\* route's handler
C29_NoHandlerWithoutKey ==
  /\ (req # None /\ Unauthorised) => handlerRuns = {}
  /\ (Answered /\ Unauthorised) =>
        resStatus = (IF req.method = "OPTIONS" THEN 204
               ELSE IF OverLimit THEN 429
               ELSE 401)
  /\ (Answered /\ ~Truthy(API_KEY)) =>
        /\ resStatus # 401
        /\ (RouteOf(req) # "" /\ ~OverLimit) => handlerRuns = {RouteOf(req)}

\* a request with a wrong key was answered with 401 by apiKeyAuth
C29_Witness ==
  /\ Answered
  /\ Unauthorised
  /\ Truthy(req.apiKey)
  /\ RouteOf(req) = "vibe-figma"
  /\ resStatus = 401
  /\ handlerRuns = {}

(***************************************************************************)
(* FigmaToHTML.getNodeStyles: position and size of a node                  *)
(***************************************************************************)

\* largest coordinate of a bounding box
MaxCoord == 2

\* getNodeStyles calls made on one instance
MaxLayoutCalls == 2

\* `${n}px`
px(n) == [value |-> n, unit |-> "px"]

\* a / b rounded to the nearest integer, halves away from zero
RoundDiv(a, b) ==
  IF a >= 0 THEN (2 * a + b) \div (2 * b) ELSE -((2 * (-a) + b) \div (2 * b))

\* `${((part / whole) * 100).toFixed(2)}%`: value holds hundredths of a percent
percent(part, whole) == [value |-> RoundDiv(part * 10000, whole), unit |-> "%"]

\* delete styles[key] for each key
DeleteKeys(s, keys) == [k \in DOMAIN s \ keys |-> s[k]]

\* absoluteBoundingBox of a node
NodeBoxes == [x : 0..MaxCoord, y : {0}, width : {4}, height : {1}]

\* parentBounds: undefined for the root, else the parent's absoluteBoundingBox
ParentBoxes == {Undefined} \cup [x : {0, 1}, y : {0}, width : {0, 8}, height : {1}]

LayoutNodes ==
  [type : {"TEXT", "FRAME"}, absoluteBoundingBox : NodeBoxes,
   layoutPositioning : {"AUTO", "ABSOLUTE"}, layoutMode : {"NONE"}]

\* parentNode?.layoutMode ?? "NONE"
ParentLayoutModes == {"NONE", "HORIZONTAL"}

\* Boolean(useAbsolutePositioning && parentBounds &&
\*         (!isParentAutoLayout || node.layoutPositioning === "ABSOLUTE"))
treatAsAbsolute(opts, node, parentBounds, parentLayoutMode) ==
  /\ opts.useAbsolutePositioning
  /\ parentBounds # Undefined
  /\ (parentLayoutMode = "NONE" \/ node.layoutPositioning = "ABSOLUTE")

\* the first positioning block: a TEXT node keeps its pixel offset
PositionedFirst(opts, node, parentBounds, parentLayoutMode, counter) ==
  IF treatAsAbsolute(opts, node, parentBounds, parentLayoutMode)
  THEN LET offsetX == node.absoluteBoundingBox.x - parentBounds.x
           offsetY == node.absoluteBoundingBox.y - parentBounds.y
           usePixelPosition == node.type = "TEXT"
       IN  ("position" :> "absolute") @@
           ("left" :> (IF opts.responsive /\ parentBounds.width > 0 /\ ~usePixelPosition
                       THEN percent(offsetX, parentBounds.width)
                       ELSE px(offsetX))) @@
           ("top" :> px(offsetY)) @@
           ("zIndex" :> counter)
  ELSE IF opts.useAbsolutePositioning /\ parentBounds = Undefined
  THEN ("position" :> "relative")
  ELSE <<>>

\* the second positioning block: the same assignments again, without the test
\* on the node type; later assignments to a key replace earlier ones
PositionedSecond(opts, node, parentBounds, parentLayoutMode, counter, s) ==
  IF treatAsAbsolute(opts, node, parentBounds, parentLayoutMode)
  THEN LET offsetX == node.absoluteBoundingBox.x - parentBounds.x
           offsetY == node.absoluteBoundingBox.y - parentBounds.y
       IN  ("position" :> "absolute") @@
           ("left" :> (IF opts.responsive /\ parentBounds.width > 0
                       THEN percent(offsetX, parentBounds.width)
                       ELSE px(offsetX))) @@
           ("top" :> px(offsetY)) @@
           ("zIndex" :> counter) @@
           DeleteKeys(s, {"position", "left", "top", "zIndex"})
  ELSE IF opts.useAbsolutePositioning /\ parentBounds = Undefined
  THEN ("position" :> "relative") @@ DeleteKeys(s, {"position"})
  ELSE s

\* width and height
Sized(opts, node, parentBounds, parentLayoutMode, s) ==
  LET bounds == node.absoluteBoundingBox
  IN  IF opts.responsive /\ parentBounds = Undefined
      THEN ("width" :> [value |-> 10000, unit |-> "%"]) @@
           ("minHeight" :> px(bounds.height)) @@ s
      ELSE IF /\ opts.responsive
              /\ parentBounds # Undefined
              /\ parentLayoutMode = "NONE"
              /\ node.layoutMode = "NONE"
      THEN ("width" :> (IF parentBounds.width > 0
                        THEN percent(bounds.width, parentBounds.width)
                        ELSE px(bounds.width))) @@
           ("height" :> px(bounds.height)) @@ s
      ELSE ("width" :> px(bounds.width)) @@ ("height" :> px(bounds.height)) @@ s

\* a child of an auto-layout parent that is not absolutely positioned follows
\* the flex flow
InFlow(node, parentLayoutMode, s) ==
  IF parentLayoutMode # "NONE" /\ node.layoutPositioning # "ABSOLUTE"
  THEN ("position" :> "relative") @@ DeleteKeys(s, {"position", "left", "top"})
  ELSE s

\* the number of times getNodeStyles evaluates this.zIndexCounter++
CounterSteps(opts, node, parentBounds, parentLayoutMode) ==
  IF treatAsAbsolute(opts, node, parentBounds, parentLayoutMode) THEN 2 ELSE 0

\* getNodeStyles(node, parentBounds, parentNode): position and size
getNodeStyles(opts, node, parentBounds, parentLayoutMode, counter) ==
  InFlow(node, parentLayoutMode,
    Sized(opts, node, parentBounds, parentLayoutMode,
      PositionedSecond(opts, node, parentBounds, parentLayoutMode, counter + 1,
        PositionedFirst(opts, node, parentBounds, parentLayoutMode, counter))))

\* new FigmaToHTML(options)
LayoutInit ==
  /\ layoutOptions \in [useAbsolutePositioning : BOOLEAN, responsive : BOOLEAN]
  /\ zIndexCounter = 1
  /\ rootWidth = {}
  /\ lastCall = None
  /\ nodeStyles = <<>>
  /\ layoutCalls = 0
  /\ ExtractorIdle
  /\ ResolverIdle
  /\ PipelineIdle
  /\ CliIdle
  /\ DownloadIdle
  /\ ServerIdle

\* this.getNodeStyles(node, parentBounds, parentNode)
GetNodeStyles(node, parentBounds, parentLayoutMode) ==
  /\ layoutOptions # None
  /\ layoutCalls < MaxLayoutCalls
  /\ lastCall' = [node |-> node, parentBounds |-> parentBounds,
                  parentLayoutMode |-> parentLayoutMode]
  /\ rootWidth' = IF parentBounds = Undefined /\ rootWidth = {}
                  THEN {node.absoluteBoundingBox.width}
                  ELSE rootWidth
  /\ nodeStyles' = getNodeStyles(layoutOptions, node, parentBounds, parentLayoutMode,
                                 zIndexCounter)
  /\ zIndexCounter' = zIndexCounter
                      + CounterSteps(layoutOptions, node, parentBounds, parentLayoutMode)
  /\ layoutCalls' = layoutCalls + 1
  /\ UNCHANGED layoutOptions
  /\ UNCHANGED <<extractorVars, resolverVars, pipelineVars, cliVars, downloadVars, serverVars>>

LayoutNext ==
  \E node \in LayoutNodes, parentBounds \in ParentBoxes, mode \in ParentLayoutModes :
     GetNodeStyles(node, parentBounds, mode)

LayoutSpec == LayoutInit /\ [][LayoutNext]_vars

\* C30: the left offset of an absolutely positioned TEXT node is in pixels,
\* also in responsive mode under a parent of positive width
C30_TextLeftInPixels ==
  (/\ layoutCalls > 0
   /\ lastCall.node.type = "TEXT"
   /\ "left" \in DOMAIN nodeStyles
   /\ nodeStyles["position"] = "absolute")
  => nodeStyles["left"].unit = "px"

====
